---- MODULE Spec2Model ----
(***************************************************************************)
(* AutoBot, the Mercari deal hunter: the dedup store (pkg/store/dedup.go), *)
(* the scan cycle (cmd/autobot main: runScanCycle, scanBrand), the image   *)
(* classification gate (pkg/mercari AIFilter), the retrying search         *)
(* (searchWithRetry) and the process (main, Bot.run, safeScan, the command *)
(* listener).                                                              *)
(*                                                                         *)
(* Time is counted in minutes.  Scores are counted in hundredths (0.3 is   *)
(* 30).  Every call that leaves the process (a SQL statement, a Telegram   *)
(* request, a classifier request) has its outcome chosen by the            *)
(* environment.                                                            *)
(***************************************************************************)
EXTENDS Integers, Sequences, FiniteSets, TLC

VARIABLES
    now,            \* wall clock, minutes
    rows,           \* table seen_items: a set of rows
    apiKey,         \* cfg.HuggingFace.APIKey
    enableFlag,     \* cfg.EnableAIFilter
    enabled,        \* AIFilter.enabled
    pc,             \* position of the scan loop
    bIdx,           \* runScanCycle: index of the brand being scanned
    kIdx,           \* scanBrand: index of the keyword being scanned
    unseen,         \* scanBrand: the capped unseen listings of this keyword
    kept,           \* scanBrand: listings kept by the gate, not yet notified
    found,          \* scanBrand: named result found
    newItems,       \* scanBrand: named result newItems
    sent,           \* scanBrand: named result sent
    totalFound,     \* runScanCycle: totalFound
    totalNew,       \* runScanCycle: totalNew
    totalSent,      \* runScanCycle: totalSent
    lastScanTime,   \* Bot.lastScanTime
    runCount,       \* Bot.runCount
    ev,             \* history: what the last step did to the notifier and the store
    delivered,      \* history: ids of the successful SendDeal calls since the id's row was purged
    live,           \* history: ids inserted by MarkSeen and not purged since
    firstMark,      \* history: per id, the time of the MarkSeen that inserted its row
    fpc,            \* FilterItems: position of the dispatching goroutine
    fin,            \* FilterItems: the argument items
    fi,             \* FilterItems: loop index i
    sem,            \* FilterItems: slots of sem that are taken
    wg,             \* FilterItems: the WaitGroup counter
    wpc,            \* FilterItems: position of the worker of each index
    results,        \* FilterItems: the results slice
    writes,         \* history: the assignments made to each slot of results
    reqs,           \* history: classification requests issued per index
    answers,        \* history: the last classifier answer per index
    fout,           \* FilterItems: the returned list
    sPc,            \* searchWithRetry: position
    maxRetries,     \* searchWithRetry: parameter maxRetries
    attempt,        \* searchWithRetry: loop variable attempt
    lastErr,        \* searchWithRetry: lastErr ("" is nil)
    sRet,           \* searchWithRetry: the returned pair
    outcomes,       \* history: the error of each search call made ("" is nil)
    waits,          \* history: the sleeps made, with the attempt they preceded
    mode,           \* main: "once" for the flag -once, else "loop"
    mpc,            \* the process: position of main
    rpc,            \* Bot.run: position
    cpc,            \* the scan cycle under way, seen from Bot.run
    tick,           \* ticker.C: ticks waiting in the channel (capacity 1)
    quit,           \* quit: signals waiting in the channel (capacity 1)
    stopClosed,     \* listenerStop is closed
    lpc,            \* ListenForCommands: position
    running,        \* history: scan cycles under way
    panics,         \* history: panics recovered by safeScan
    signalled,      \* history: SIGINT or SIGTERM has been delivered
    searchPc,       \* Scanner.Search: position of one call
    resp,           \* Scanner.Search: the HTTP response, status and body
    searchRet,      \* Scanner.Search: the returned pair
    privateKey,     \* Scanner.privateKey
    draws,          \* history: values read from crypto/rand by generateUUID
    tokens,         \* history: the proof tokens generateDPoP has returned
    sentReqs,       \* history: the DPoP header of each search request sent
    chatID,         \* Notifier.chatID, the configured chat
    upc,            \* ListenForCommands: position, update by update
    batch,          \* ListenForCommands: updates
    uIdx,           \* ListenForCommands: index of the update being handled
    snap,           \* getStatus: the values read so far
    replies,        \* history: the status messages handed to sendMessage
    polls,          \* history: getUpdates calls made
    wpos,           \* runScanCycle beside the listener: position
    timeBy,         \* history: the cycle that wrote lastScanTime
    paced           \* history: ms runScanCycle has slept since the last search

storeVars  == <<now, rows, ev, delivered, live, firstMark>>
cfgVars    == <<apiKey, enableFlag, enabled>>
cycleVars  == <<pc, bIdx, kIdx, unseen, kept, found, newItems, sent,
                totalFound, totalNew, totalSent, lastScanTime, runCount>>
filterVars == <<fpc, fin, fi, sem, wg, wpc, results, writes, reqs, answers,
                fout>>
retryVars  == <<sPc, maxRetries, attempt, lastErr, sRet, outcomes, waits>>
runVars    == <<mode, mpc, rpc, cpc, tick, quit, stopClosed, lpc, running,
                panics, signalled>>
scanVars   == <<pc, bIdx, kIdx, unseen, kept, found, newItems, sent,
                totalFound, totalNew, totalSent>>
parseVars  == <<searchPc, resp, searchRet>>
dpopVars   == <<privateKey, draws, tokens, sentReqs>>
scannerVars == <<parseVars, dpopVars>>
listenVars == <<chatID, upc, batch, uIdx, snap, replies, polls, wpos, timeBy>>
loopVars   == <<retryVars, runVars, scannerVars, listenVars, paced>>
vars       == <<storeVars, cfgVars, cycleVars, filterVars, loopVars>>

----------------------------------------------------------------------------
(* Bounds of the model *)

NumIDs      == 2    \* listing ids the marketplace returns
MaxResp     == 3    \* listings in one search response
MaxMinutes  == 1    \* single minutes the clock advances within a week
MaxWeeks    == 1    \* whole retention periods the clock advances
MaxCycles   == 1    \* scan cycles of one process
MaxItems    == 3    \* listings handed to one FilterItems call
MaxRequests == 3    \* classification requests for one listing
MaxDealsPerBrand == 2   \* cfg.MaxDealsPerBrand, the configured cap (5 by default)
MaxN        == 3    \* the largest maxRetries given to searchWithRetry
MaxLoops    == 2    \* scan cycles completed by one process
MaxPanics   == 1    \* panics recovered by one process
MaxText     == 3    \* characters in the text of a numeric field
MaxPrefix   == 2    \* bytes at the head of an error body that vary
MaxPolls    == 2    \* getUpdates calls of one listener
MaxUpdates  == 1    \* updates in one getUpdates result

(* Program constants *)

RetentionMinutes == 7 * 24 * 60     \* cleanup: -7 * 24 * time.Hour
MaxAgeMinutes    == 180             \* cfg.MaxAgeMinutes
maxWorkers       == 3               \* FilterItems: const maxWorkers
RejectThreshold  == 30              \* classifyItem: topScore > 0.3
StatusOK         == 200             \* http.StatusOK
StatusLoading    == 503             \* classifyItem: resp.StatusCode == 503
StatusOther      == 500             \* any other non-200 status
JitterBound      == 1000            \* searchWithRetry: rand.Intn(1000) ms
PaceBase         == 500             \* runScanCycle: 500+rand.Intn(1500) ms
PaceSpread       == 1500            \* runScanCycle: rand.Intn(1500)
ExcerptLen       == 300             \* Search: truncate(string(body), 300)

IDs == 1..NumIDs

Brands == << [Name |-> "b1", Keywords |-> <<"k1", "k2">>],
             [Name |-> "b2", Keywords |-> <<"k3">>] >>

NoTime == 0 - 1     \* the zero time.Time of lastScanTime

SeqsUpTo(S, n) == UNION {[1..k -> S] : k \in 0..n}

----------------------------------------------------------------------------
(* mercari.Item *)

ImageLists == {<<>>, <<"img">>}

Items(t) == [ID : IDs, Name : {"hat"}, Price : {5000}, ImageURLs : ImageLists,
             Created : {t - MaxAgeMinutes, t - MaxAgeMinutes - 1}]

AgeMinutes(item, t) == t - item.Created

firstImage(urls) == IF Len(urls) > 0 THEN urls[1] ELSE ""

----------------------------------------------------------------------------
(* store.DedupStore.  ioErr is the outcome of the SQL statement: TRUE when *)
(* the database fails to execute it.                                       *)

Row(itemID, brand, name, price, at) ==
    [id |-> itemID, brand |-> brand, name |-> name, price |-> price,
     seen_at |-> at]

RowsOf(t, itemID) == {r \in t : r.id = itemID}

HasSeenStrict(t, itemID, ioErr) ==
    IF ioErr THEN FALSE ELSE Cardinality(RowsOf(t, itemID)) > 1

HasSeen(t, itemID, ioErr) ==
    IF ioErr THEN FALSE ELSE Cardinality(RowsOf(t, itemID)) > 0

\* INSERT on a table whose primary key is id: a second row is a constraint error
InsertPlain(t, row) ==
    IF RowsOf(t, row.id) # {} THEN [rows |-> t, err |-> TRUE]
                              ELSE [rows |-> t \cup {row}, err |-> FALSE]

\* an insert that first deletes the rows past retention at the row's time
InsertAfterCleanup(t, row) ==
    LET u == {r \in t : ~(r.seen_at < row.seen_at - RetentionMinutes)}
    IN  IF RowsOf(u, row.id) # {} THEN [rows |-> u, err |-> FALSE]
                                  ELSE [rows |-> u \cup {row}, err |-> FALSE]

\* INSERT OR REPLACE on a table whose primary key is id
InsertOrReplace(t, row) ==
    [rows |-> (t \ RowsOf(t, row.id)) \cup {row}, err |-> FALSE]

\* INSERT OR IGNORE on a table whose primary key is id
InsertOrIgnore(t, row) ==
    IF RowsOf(t, row.id) # {} THEN [rows |-> t, err |-> FALSE]
                              ELSE [rows |-> t \cup {row}, err |-> FALSE]

MarkSeen(t, itemID, brand, name, price, at, ioErr) ==
    IF ioErr THEN [rows |-> t, err |-> TRUE]
             ELSE InsertOrIgnore(t, Row(itemID, brand, name, price, at))

Count(t, ioErr) == IF ioErr THEN 0 ELSE Cardinality(t)

cleanup(t, at, ioErr) ==
    LET cutoff == at - RetentionMinutes
    IN  IF ioErr THEN t ELSE {r \in t : ~(r.seen_at < cutoff)}

NewDedupStoreNoCleanup(t, at, ioErr) == t

NewDedupStore(t, at, ioErr) == cleanup(t, at, ioErr)

----------------------------------------------------------------------------
(* mercari.AIFilter *)

PlaceholderKey == "YOUR_HF_API_KEY"

ApiKeys == {"", PlaceholderKey, "hf_key"}

NewAIFilterNoPlaceholder(key, flag) == flag /\ key # ""

\* the enabled field NewAIFilter computes
NewAIFilter(key, flag) == flag /\ key # "" /\ key # PlaceholderKey

keepLabels == {"a hat or cap", "a beanie", "a jacket or coat", "a leather jacket",
               "a sweater or knitwear", "a shirt or top", "pants or trousers",
               "shorts", "a designer handbag", "a leather bag", "a luxury wallet",
               "designer shoes", "leather shoes or boots", "sunglasses", "a watch",
               "jewelry", "fashion accessories"}

trashLabels == {"an empty box", "a cardboard box", "a shopping bag", "a paper bag",
                "a receipt", "a blurry photo", "a logo tag only", "a dust bag only"}

(* What the classifier can answer to one request.  kind: the transport     *)
(* failed ("transport_error"), the body could not be read ("read_error"),  *)
(* or a response arrived ("http") with a status and a body.  A body is     *)
(* not JSON of either accepted form ("garbage"), one object ("object") or  *)
(* an array of objects ("array"); elems holds the decoded clipResponse     *)
(* values.                                                                 *)

MaxRanked == 2      \* labels and scores in one clipResponse

RespLabels == {"a hat or cap", "an empty box"}
RespScores == {RejectThreshold, RejectThreshold + 1}

ClipResponses == [labels : SeqsUpTo(RespLabels, MaxRanked),
                  scores : SeqsUpTo(RespScores, MaxRanked)]

Answer(kind, status, shape, elems) ==
    [kind |-> kind, status |-> status, shape |-> shape, elems |-> elems]

FinalAnswers ==
    {Answer("transport_error", 0, "none", <<>>),
     Answer("read_error", StatusOK, "none", <<>>),
     Answer("http", StatusOther, "garbage", <<>>),
     Answer("http", StatusOK, "garbage", <<>>),
     Answer("http", StatusOK, "array", <<>>)}
    \cup {Answer("http", StatusOK, "object", <<c>>) : c \in ClipResponses}
    \cup {Answer("http", StatusOK, "array", <<c>>) : c \in ClipResponses}

LoadingAnswer == Answer("http", StatusLoading, "garbage", <<>>)

Answers == FinalAnswers \cup {LoadingAnswer}

Result(keep, label, score) ==
    [retry |-> FALSE, keep |-> keep, label |-> label, score |-> score]

RetryResult == [retry |-> TRUE, keep |-> TRUE, label |-> "retry", score |-> 0]

HasNoImageNever(item) == FALSE

\* len(item.ImageURLs) == 0, as FilterItems and classifyItem both test it
HasNoImage(item) == Len(item.ImageURLs) = 0

\* the verdict on a decoded clipResponse
verdictAtThreshold(c) ==
    IF Len(c.labels) = 0 \/ Len(c.scores) = 0
    THEN Result(TRUE, "empty_result", 0)
    ELSE IF c.labels[1] \in trashLabels /\ c.scores[1] >= RejectThreshold
         THEN Result(FALSE, c.labels[1], c.scores[1])
         ELSE Result(TRUE, c.labels[1], c.scores[1])

verdict(c) ==
    IF Len(c.labels) = 0 \/ Len(c.scores) = 0
    THEN Result(TRUE, "empty_result", 0)
    ELSE IF c.labels[1] \in trashLabels /\ c.scores[1] > RejectThreshold
         THEN Result(FALSE, c.labels[1], c.scores[1])
         ELSE Result(TRUE, c.labels[1], c.scores[1])

classifyResponseFailClosed(a) ==
    IF a.kind # "http" THEN Result(FALSE, "error", 0)
    ELSE IF a.status # StatusOK
         THEN IF a.status = StatusLoading THEN RetryResult
              ELSE Result(FALSE, "api_error", 0)
    ELSE IF a.shape = "object" THEN verdict(a.elems[1])
    ELSE IF a.shape = "array" /\ Len(a.elems) > 0 THEN verdict(a.elems[1])
    ELSE Result(FALSE, "parse_error", 0)

\* classifyItem from the answer to its request on: one pass of its body
classifyResponse(a) ==
    IF a.kind # "http" THEN Result(TRUE, "error", 0)
    ELSE IF a.status # StatusOK
         THEN IF a.status = StatusLoading THEN RetryResult
              ELSE Result(TRUE, "api_error", 0)
    ELSE IF a.shape = "object" THEN verdict(a.elems[1])
    ELSE IF a.shape = "array" /\ Len(a.elems) > 0 THEN verdict(a.elems[1])
    ELSE Result(TRUE, "parse_error", 0)

NoImageResult == Result(TRUE, "no_image", 0)

\* the loop that collects the kept items, in index order
RECURSIVE CollectNewestFirst(_, _, _)
CollectNewestFirst(items, res, i) ==
    IF i > Len(items) THEN <<>>
    ELSE IF res[i].keep THEN CollectNewestFirst(items, res, i + 1) \o <<items[i]>>
         ELSE CollectNewestFirst(items, res, i + 1)

RECURSIVE Collect(_, _, _)
Collect(items, res, i) ==
    IF i > Len(items) THEN <<>>
    ELSE IF res[i].keep THEN <<items[i]>> \o Collect(items, res, i + 1)
         ELSE Collect(items, res, i + 1)

(* FilterItems as one call returns, given the answer that ended the        *)
(* classification of each index (the answer after any loading answers).    *)
FilterItemsAppendsToInput(items, en, final) ==
    IF ~en THEN items
    ELSE IF Len(items) = 0 THEN items
    ELSE items \o Collect(items,
                          [i \in 1..Len(items) |->
                              IF HasNoImage(items[i]) THEN NoImageResult
                              ELSE classifyResponse(final[i])],
                          1)

FilterItems(items, en, final) ==
    IF ~en THEN items
    ELSE IF Len(items) = 0 THEN items
    ELSE Collect(items,
                 [i \in 1..Len(items) |->
                     IF HasNoImage(items[i]) THEN NoImageResult
                     ELSE classifyResponse(final[i])],
                 1)

----------------------------------------------------------------------------
(* History records *)

\* no id has a row
NoMarks == [id \in IDs |-> NoTime]

\* the history firstMark after a MarkSeen(itemID) call at time at that took
\* the table from t to t2
Marked(fm, t, t2, itemID, at) ==
    IF RowsOf(t, itemID) = {} /\ RowsOf(t2, itemID) # {}
    THEN [fm EXCEPT ![itemID] = at] ELSE fm

Event(type, id, sendOK, again, marked, ioErr, err, existed, purged) ==
    [type |-> type, id |-> id, sendOK |-> sendOK, again |-> again,
     marked |-> marked, ioErr |-> ioErr, err |-> err, existed |-> existed,
     purged |-> purged, fresh |-> 0, items |-> <<>>, looked |-> <<>>,
     unseen |-> <<>>, offered |-> Row(0, "", "", 0, NoTime), count |-> 0,
     logged |-> {}]

NoEvent == Event("none", 0, FALSE, FALSE, FALSE, FALSE, FALSE, FALSE, {})

\* a search has answered and n of its listings passed the age filter
SearchEvent(n) == [NoEvent EXCEPT !.type = "search", !.fresh = n]

\* a search has answered with items; the listings of fresh were looked up in
\* the store and those of un were not reported as seen
KeywordEvent(items, fresh, un) ==
    [SearchEvent(Len(fresh)) EXCEPT !.items = items, !.looked = fresh,
                                    !.unseen = un]

----------------------------------------------------------------------------
(* The state after construction *)

ZeroSlot == [keep |-> FALSE, label |-> "", score |-> 0]

Slot(r) == [keep |-> r.keep, label |-> r.label, score |-> r.score]

\* a FilterItems call about to run on items (fpc "start"), or none (fpc "off")
FilterAt(p, items) ==
    /\ fpc = p /\ fin = items /\ fi = 0 /\ sem = 0 /\ wg = 0
    /\ wpc = [i \in DOMAIN items |-> "none"]
    /\ results = [i \in DOMAIN items |-> ZeroSlot]
    /\ writes = [i \in DOMAIN items |-> 0]
    /\ reqs = [i \in DOMAIN items |-> 0]
    /\ answers = [i \in DOMAIN items |-> "none"]
    /\ fout = <<>>

FilterIdle == FilterAt("off", <<>>)

\* searchWithRetry is not running
NoReturn == [items |-> <<>>, err |-> "", wraps |-> ""]

RetryAt(p, n) ==
    /\ sPc = p /\ maxRetries = n /\ attempt = 0 /\ lastErr = ""
    /\ sRet = NoReturn /\ outcomes = <<>> /\ waits = <<>>

RetryIdle == RetryAt("off", 0)

\* main at position p, nothing of Bot.run started
RunAt(p, m) ==
    /\ mode = m /\ mpc = p /\ rpc = "off" /\ cpc = "idle" /\ tick = 0 /\ quit = 0
    /\ stopClosed = FALSE /\ lpc = "off" /\ running = 0 /\ panics = 0
    /\ signalled = FALSE

RunIdle == RunAt("off", "loop")

\* no Search call under way; the scanner holds the key pair k
NoResponse == [status |-> 0, json |-> FALSE, items |-> <<>>, text |-> <<>>]

NoSearchReturn == [items |-> <<>>, err |-> "", excerpt |-> <<>>]

ParseIdle == searchPc = "off" /\ resp = NoResponse /\ searchRet = NoSearchReturn

ScannerAt(k) ==
    /\ ParseIdle
    /\ privateKey = k /\ draws = 0 /\ tokens = <<>> /\ sentReqs = <<>>

ScannerIdle == ScannerAt("key1")

\* getStatus has read nothing
NoStatus == [lastScan |-> NoTime, by |-> 0, cycles |-> 0, count |-> 0]

\* the listener at position p for the configured chat c, the scan loop at w
ListenAt(p, w, c) ==
    /\ chatID = c /\ upc = p /\ batch = <<>> /\ uIdx = 0 /\ snap = NoStatus
    /\ replies = <<>> /\ polls = 0 /\ wpos = w /\ timeBy = 0

ListenIdle == ListenAt("off", "off", <<"4", "2">>)

CycleIdle ==
    /\ pc = "idle" /\ bIdx = 0 /\ kIdx = 0 /\ unseen = <<>> /\ kept = <<>>
    /\ found = 0 /\ newItems = 0 /\ sent = 0
    /\ totalFound = 0 /\ totalNew = 0 /\ totalSent = 0
    /\ lastScanTime = NoTime /\ runCount = 0 /\ paced = 0

\* main: config loaded, filter and store created on a new database, bot idle
Init ==
    /\ now = 0
    /\ rows = NewDedupStore({}, 0, FALSE)
    /\ apiKey = "hf_key"
    /\ enableFlag \in BOOLEAN
    /\ enabled = NewAIFilter(apiKey, enableFlag)
    /\ ev = NoEvent
    /\ delivered = {}
    /\ live = {}
    /\ firstMark = NoMarks
    /\ CycleIdle
    /\ FilterIdle
    /\ RetryIdle
    /\ RunIdle
    /\ ScannerIdle
    /\ ListenIdle

----------------------------------------------------------------------------
(* The clock *)

Tick ==
    /\ now % RetentionMinutes < MaxMinutes
    /\ now' = now + 1
    /\ ev' = NoEvent
    /\ UNCHANGED <<rows, delivered, live, firstMark, cfgVars, loopVars, cycleVars,
                   filterVars>>

WeekPasses ==
    /\ now \div RetentionMinutes < MaxWeeks
    /\ now' = now + RetentionMinutes
    /\ ev' = NoEvent
    /\ UNCHANGED <<rows, delivered, live, firstMark, cfgVars, loopVars, cycleVars,
                   filterVars>>

----------------------------------------------------------------------------
(* The process ends (a signal, a crash, power loss) and main runs again    *)
(* on the same database file and the same config.                          *)

Restart ==
    \E ioErr \in BOOLEAN :
        LET t      == NewDedupStore(rows, now, ioErr)
            purged == {r.id : r \in rows \ t}
        IN  /\ rows' = t
            /\ ev' = Event("restart", 0, FALSE, FALSE, FALSE, ioErr, FALSE, FALSE, purged)
            /\ delivered' = delivered \ purged
            /\ live' = live \ purged
            /\ firstMark' = [id \in IDs |->
                                IF id \in purged THEN NoTime ELSE firstMark[id]]
            /\ pc' = "idle" /\ bIdx' = 0 /\ kIdx' = 0
            /\ unseen' = <<>> /\ kept' = <<>>
            /\ found' = 0 /\ newItems' = 0 /\ sent' = 0
            /\ totalFound' = 0 /\ totalNew' = 0 /\ totalSent' = 0
            /\ lastScanTime' = NoTime /\ runCount' = 0
            /\ UNCHANGED <<now, cfgVars, loopVars, filterVars>>

----------------------------------------------------------------------------
(* runScanCycle and scanBrand *)

\* the scan loop calls runScanCycle
StartCycle ==
    /\ pc = "idle"
    /\ runCount < MaxCycles
    /\ pc' = "search" /\ bIdx' = 1 /\ kIdx' = 1
    /\ totalFound' = 0 /\ totalNew' = 0 /\ totalSent' = 0
    /\ found' = 0 /\ newItems' = 0 /\ sent' = 0
    /\ ev' = NoEvent
    /\ UNCHANGED <<now, rows, delivered, live, firstMark, cfgVars, loopVars, unseen, kept,
                   lastScanTime, runCount, filterVars>>

\* the items of fresh that the store does not report as seen; the lookup of
\* index i fails when i is in failed
RECURSIVE Dedup(_, _, _, _)
Dedup(t, fresh, failed, i) ==
    IF i > Len(fresh) THEN <<>>
    ELSE IF ~HasSeen(t, fresh[i].ID, i \in failed)
         THEN <<fresh[i]>> \o Dedup(t, fresh, failed, i + 1)
         ELSE Dedup(t, fresh, failed, i + 1)

\* the age filter left out
FreshOfAnyAge(items, t) == items

FreshOf(items, t) ==
    SelectSeq(items, LAMBDA it : AgeMinutes(it, t) <= MaxAgeMinutes)

CapNone(list) == list

\* unseen = unseen[:b.cfg.MaxDealsPerBrand]
Cap(list) ==
    IF Len(list) > MaxDealsPerBrand THEN SubSeq(list, 1, MaxDealsPerBrand)
    ELSE list

\* searchWithRetry has returned an error for a keyword
SearchFailedEvent ==
    [NoEvent EXCEPT !.type = "search_failed", !.logged = {"Search failed"}]

\* return: the keyword loop of n keywords is left at keyword k
returnFromLoop(k, n) == n + 1

\* continue: the keyword loop goes on after keyword k
continueLoop(k, n) == k + 1

\* one pass of scanBrand's keyword loop up to the gate: the search fails
SearchFails ==
    /\ pc = "search"
    /\ kIdx <= Len(Brands[bIdx].Keywords)
    /\ kIdx' = continueLoop(kIdx, Len(Brands[bIdx].Keywords))
    /\ ev' = SearchFailedEvent
    /\ paced' = 0
    /\ UNCHANGED <<now, rows, delivered, live, firstMark, cfgVars, retryVars, runVars, scannerVars, listenVars, pc, bIdx, unseen, kept,
                   found, newItems, sent, totalFound, totalNew, totalSent,
                   lastScanTime, runCount, filterVars>>

\* the listings a search of the cycle returns; the gate's treatment of a
\* listing without image is explored in SpecFilter
SearchItems(t) == {x \in Items(t) : Len(x.ImageURLs) > 0}

\* one pass of scanBrand's keyword loop up to the gate: the search answers
ScanKeyword ==
    /\ pc = "search"
    /\ kIdx <= Len(Brands[bIdx].Keywords)
    /\ \E items \in SeqsUpTo(SearchItems(now), MaxResp) :
        LET fresh == FreshOf(items, now)
        IN  \E failed \in SUBSET (1..Len(fresh)) :
                LET un == Dedup(rows, fresh, failed, 1)
                IN  /\ found' = found + Len(items)
                    /\ newItems' = newItems + Len(un)
                    /\ ev' = KeywordEvent(items, fresh, un)
                    /\ IF Len(un) = 0
                       THEN /\ kIdx' = kIdx + 1
                            /\ UNCHANGED <<pc, unseen>>
                       ELSE /\ unseen' = Cap(un)
                            /\ pc' = "filter"
                            /\ UNCHANGED kIdx
    /\ paced' = 0
    /\ UNCHANGED <<now, rows, delivered, live, firstMark, cfgVars, retryVars, runVars, scannerVars, listenVars, bIdx, kept, sent,
                   totalFound, totalNew, totalSent, lastScanTime, runCount,
                   filterVars>>

\* the answers that end a classification in the scan cycle
CycleAnswers ==
    {Answer("transport_error", 0, "none", <<>>),
     Answer("http", StatusOK, "object",
            << [labels |-> <<"an empty box">>, scores |-> <<RejectThreshold + 1>>] >>),
     Answer("http", StatusOK, "object",
            << [labels |-> <<"a hat or cap">>, scores |-> <<RejectThreshold + 1>>] >>)}

\* kept := b.filter.FilterItems(unseen)
FilterStep ==
    /\ pc = "filter"
    /\ \E final \in [1..Len(unseen) -> CycleAnswers] :
        LET k == FilterItems(unseen, enabled, final)
        IN  /\ kept' = k
            /\ IF Len(k) = 0
               THEN pc' = "search" /\ kIdx' = kIdx + 1
               ELSE pc' = "notify" /\ UNCHANGED kIdx
    /\ unseen' = <<>>
    /\ ev' = NoEvent
    /\ UNCHANGED <<now, rows, delivered, live, firstMark, cfgVars, loopVars, bIdx, found, newItems,
                   sent, totalFound, totalNew, totalSent, lastScanTime, runCount,
                   filterVars>>

\* one pass of the notification loop; the error of MarkSeen is assigned to
\* the blank identifier, so the pass logs only a failed SendDeal
Notify ==
    /\ pc = "notify"
    /\ Len(kept) > 0
    /\ LET item  == Head(kept)
           brand == Brands[bIdx]
       IN  \/ \* SendDeal returns an error: continue
              /\ ev' = [Event("notify", item.ID, FALSE, FALSE, FALSE, FALSE, FALSE,
                              RowsOf(rows, item.ID) # {}, {})
                        EXCEPT !.logged = {"Failed to send deal"}]
              /\ UNCHANGED <<rows, delivered, live, firstMark, sent>>
           \/ \* SendDeal succeeds: MarkSeen, sent++
              \E ioErr \in BOOLEAN :
                LET m == MarkSeen(rows, item.ID, brand.Name, item.Name, item.Price, now,
                                  ioErr)
                IN  /\ rows' = m.rows
                    /\ sent' = sent + 1
                    /\ delivered' = delivered \cup {item.ID}
                    /\ live' = IF m.err THEN live ELSE live \cup {item.ID}
                    /\ firstMark' = Marked(firstMark, rows, m.rows, item.ID, now)
                    /\ ev' = Event("notify", item.ID, TRUE, item.ID \in delivered,
                                   TRUE, ioErr, m.err,
                                   RowsOf(rows, item.ID) # {}, {})
    /\ kept' = Tail(kept)
    /\ IF Len(kept) = 1
       THEN pc' = "search" /\ kIdx' = kIdx + 1
       ELSE UNCHANGED <<pc, kIdx>>
    /\ UNCHANGED <<now, cfgVars, loopVars, bIdx, unseen, found, newItems, totalFound,
                   totalNew, totalSent, lastScanTime, runCount, filterVars>>

\* the values of 500+rand.Intn(1500) the check covers: the two ends
Paces == {PaceBase, PaceBase + PaceSpread - 1}

\* scanBrand returns; runScanCycle adds up, sleeps for the jitter and goes to
\* the next brand
ScanBrandReturns ==
    /\ pc = "search"
    /\ kIdx > Len(Brands[bIdx].Keywords)
    /\ totalFound' = totalFound + found
    /\ totalNew' = totalNew + newItems
    /\ totalSent' = totalSent + sent
    /\ found' = 0 /\ newItems' = 0 /\ sent' = 0
    /\ bIdx' = bIdx + 1 /\ kIdx' = 1
    /\ pc' = IF bIdx = Len(Brands) THEN "summary" ELSE "search"
    /\ ev' = NoEvent
    /\ \E jitter \in Paces : paced' = paced + jitter
    /\ UNCHANGED <<now, rows, delivered, live, firstMark, cfgVars, retryVars, runVars, scannerVars, listenVars, unseen, kept,
                   lastScanTime, runCount, filterVars>>

\* the end of runScanCycle; its locals end with it
EndCycle ==
    /\ pc = "summary"
    /\ lastScanTime' = now
    /\ runCount' = runCount + 1
    /\ pc' = "idle" /\ bIdx' = 0 /\ kIdx' = 0
    /\ totalFound' = 0 /\ totalNew' = 0 /\ totalSent' = 0
    /\ ev' = NoEvent
    /\ paced' = 0
    /\ UNCHANGED <<now, rows, delivered, live, firstMark, cfgVars, retryVars, runVars, scannerVars, listenVars, unseen, kept, found,
                   newItems, sent, filterVars>>

\* the name and the price a client records with each brand
Names == <<"hat", "cap">>

Prices == <<5000, 4000>>

\* a client of the store calls MarkSeen
CallMarkSeen ==
    \E id \in IDs, b \in DOMAIN Brands, ioErr \in BOOLEAN :
        LET name  == Names[b]
            price == Prices[b]
            m     == MarkSeen(rows, id, Brands[b].Name, name, price, now, ioErr)
        IN  /\ rows' = m.rows
            /\ live' = IF m.err THEN live ELSE live \cup {id}
            /\ firstMark' = Marked(firstMark, rows, m.rows, id, now)
            /\ ev' = [Event("mark", id, FALSE, FALSE, TRUE, ioErr, m.err,
                            RowsOf(rows, id) # {}, {})
                         EXCEPT !.offered = Row(id, Brands[b].Name, name, price, now)]
            /\ UNCHANGED <<now, delivered, cfgVars, loopVars, cycleVars, filterVars>>

\* a client of the store calls HasSeen
CallHasSeen ==
    \E id \in IDs, ioErr \in BOOLEAN :
        /\ ev' = [NoEvent EXCEPT !.type = "lookup", !.id = id, !.ioErr = ioErr,
                                 !.existed = HasSeen(rows, id, ioErr)]
        /\ UNCHANGED <<now, rows, delivered, live, firstMark, cfgVars, loopVars,
                       cycleVars, filterVars>>

\* a client of the store calls Count
CallCount ==
    \E ioErr \in BOOLEAN :
        /\ ev' = [NoEvent EXCEPT !.type = "count", !.ioErr = ioErr,
                                 !.count = Count(rows, ioErr)]
        /\ UNCHANGED <<now, rows, delivered, live, firstMark, cfgVars, loopVars,
                       cycleVars, filterVars>>

Next ==
    \/ Restart
    \/ StartCycle \/ SearchFails \/ ScanKeyword \/ FilterStep \/ Notify
    \/ ScanBrandReturns \/ EndCycle

\* the whole program at one instant of the clock
Spec == Init /\ [][Next]_vars

\* the store under any client, over time
NextStore ==
    \/ Tick \/ WeekPasses \/ Restart
    \/ CallMarkSeen \/ CallHasSeen \/ CallCount

SpecStore == Init /\ [][NextStore]_vars

----------------------------------------------------------------------------
(* FilterItems, goroutine by goroutine *)

FilterInputs ==
    UNION { { [i \in 1..n |-> [ID |-> i, Price |-> 5000, ImageURLs |-> imgs[i],
                               Created |-> 0]] : imgs \in [1..n -> ImageLists] }
            : n \in 0..MaxItems }

\* an input with one listing more than the worker pool, each with an image
PoolItems == maxWorkers + 1

PoolInput ==
    [i \in 1..PoolItems |-> [ID |-> i, Price |-> 5000, ImageURLs |-> <<"img">>,
                             Created |-> 0]]

\* the classifier's answers to the workers of the long input: loading, a
\* rejection, an acceptance
PoolAnswers ==
    {LoadingAnswer,
     Answer("http", StatusOK, "object",
            << [labels |-> <<"an empty box">>, scores |-> <<RejectThreshold + 1>>] >>),
     Answer("http", StatusOK, "object",
            << [labels |-> <<"a hat or cap">>, scores |-> <<RejectThreshold + 1>>] >>)}

AnswersFor(items) == IF Len(items) > MaxItems THEN PoolAnswers ELSE Answers

\* sem <- struct{}{} goes through while the channel has room
semHasRoomOffByOne(s) == s <= maxWorkers

semHasRoom(s) == s < maxWorkers

\* wg.Wait() returns when the counter is zero
wgWaitSkipped(w) == TRUE

wgWait(w) == w = 0

\* what kind of answer the classifier gave, in the words of the gate's contract
AnswerKind(a) ==
    IF a.kind = "transport_error" THEN "transport_error"
    ELSE IF a.kind = "read_error" THEN "unreadable_body"
    ELSE IF a.status = StatusLoading THEN "loading"
    ELSE IF a.status # StatusOK THEN "bad_status"
    ELSE IF a.shape = "garbage" \/ Len(a.elems) = 0 THEN "malformed_body"
    ELSE IF Len(a.elems[1].labels) = 0 \/ Len(a.elems[1].scores) = 0
         THEN "empty_result"
    ELSE IF a.elems[1].labels[1] \in trashLabels
            /\ a.elems[1].scores[1] > RejectThreshold
         THEN "top_is_trash"
    ELSE "top_is_fine"

FailureKinds == {"transport_error", "unreadable_body", "bad_status",
                 "malformed_body", "empty_result"}

InitFilter ==
    /\ now = 0
    /\ rows = NewDedupStore({}, 0, FALSE)
    /\ apiKey \in ApiKeys
    /\ enableFlag \in BOOLEAN
    /\ enabled = NewAIFilter(apiKey, enableFlag)
    /\ ev = NoEvent
    /\ delivered = {}
    /\ live = {}
    /\ firstMark = NoMarks
    /\ CycleIdle
    /\ RetryIdle
    /\ RunIdle
    /\ ScannerIdle
    /\ ListenIdle
    /\ \E items \in FilterInputs \cup {PoolInput} : FilterAt("start", items)

\* if !f.enabled { return items }; if len(items) == 0 { return items }
FilterReturnsInput ==
    /\ fpc = "start"
    /\ ~enabled \/ Len(fin) = 0
    /\ fout' = fin
    /\ fpc' = "done"
    /\ UNCHANGED <<storeVars, cfgVars, loopVars, cycleVars, fin, fi, sem, wg, wpc, results, writes,
                   reqs, answers>>

\* results := make(...); the dispatch loop starts
FilterBegins ==
    /\ fpc = "start"
    /\ enabled /\ Len(fin) > 0
    /\ fpc' = "loop"
    /\ fi' = 1
    /\ UNCHANGED <<storeVars, cfgVars, loopVars, cycleVars, fin, sem, wg, wpc, results, writes,
                   reqs, answers, fout>>

\* the dispatch loop at an item without image
DispatchBypass ==
    /\ fpc = "loop"
    /\ fi <= Len(fin)
    /\ HasNoImage(fin[fi])
    /\ results' = [results EXCEPT ![fi] = Slot(NoImageResult)]
    /\ writes' = [writes EXCEPT ![fi] = @ + 1]
    /\ fi' = fi + 1
    /\ UNCHANGED <<storeVars, cfgVars, loopVars, cycleVars, fpc, fin, sem, wg, wpc, reqs,
                   answers, fout>>

\* the dispatch loop at an item with an image: wg.Add(1), a slot of sem, go
DispatchWorker ==
    /\ fpc = "loop"
    /\ fi <= Len(fin)
    /\ ~HasNoImage(fin[fi])
    /\ semHasRoom(sem)
    /\ wg' = wg + 1
    /\ sem' = sem + 1
    /\ wpc' = [wpc EXCEPT ![fi] = "run"]
    /\ fi' = fi + 1
    /\ UNCHANGED <<storeVars, cfgVars, loopVars, cycleVars, fpc, fin, results, writes, reqs,
                   answers, fout>>

\* every worker writes the first slot
slotShared(idx) == 1

\* results[idx]: the worker's slot is the index it was started with
slotOf(idx) == idx

(* A worker runs classifyItem: one request and its answer.  On the loading *)
(* status it goes to sleep; on any other answer it writes its slot, frees  *)
(* its slot of sem and leaves the wait group.                              *)
WorkerClassifies(i) ==
    /\ wpc[i] = "run"
    /\ IF HasNoImage(fin[i])
       THEN /\ results' = [results EXCEPT ![slotOf(i)] = Slot(NoImageResult)]
            /\ writes' = [writes EXCEPT ![slotOf(i)] = @ + 1]
            /\ wpc' = [wpc EXCEPT ![i] = "done"]
            /\ sem' = sem - 1
            /\ wg' = wg - 1
            /\ UNCHANGED <<reqs, answers>>
       ELSE \E a \in AnswersFor(fin) :
            /\ a = LoadingAnswer => reqs[i] + 1 < MaxRequests
            /\ reqs' = [reqs EXCEPT ![i] = @ + 1]
            /\ answers' = [answers EXCEPT ![i] = AnswerKind(a)]
            /\ LET r == classifyResponse(a)
               IN  IF r.retry
                   THEN /\ wpc' = [wpc EXCEPT ![i] = "sleep"]
                        /\ UNCHANGED <<results, writes, sem, wg>>
                   ELSE /\ results' = [results EXCEPT ![slotOf(i)] = Slot(r)]
                        /\ writes' = [writes EXCEPT ![slotOf(i)] = @ + 1]
                        /\ wpc' = [wpc EXCEPT ![i] = "done"]
                        /\ sem' = sem - 1
                        /\ wg' = wg - 1
    /\ UNCHANGED <<storeVars, cfgVars, loopVars, cycleVars, fpc, fin, fi, fout>>

\* time.Sleep(20 * time.Second) ends; return f.classifyItem(item)
WorkerWakes(i) ==
    /\ wpc[i] = "sleep"
    /\ wpc' = [wpc EXCEPT ![i] = "run"]
    /\ UNCHANGED <<storeVars, cfgVars, loopVars, cycleVars, fpc, fin, fi, sem, wg, results, writes,
                   reqs, answers, fout>>

\* the loop is over, wg.Wait() returns, the kept items are collected
FilterCollects ==
    /\ fpc = "loop"
    /\ fi > Len(fin)
    /\ wgWait(wg)
    /\ fout' = Collect(fin, results, 1)
    /\ fpc' = "done"
    /\ UNCHANGED <<storeVars, cfgVars, loopVars, cycleVars, fin, fi, sem, wg, wpc, results, writes,
                   reqs, answers>>

NextFilter ==
    \/ FilterReturnsInput \/ FilterBegins \/ DispatchBypass \/ DispatchWorker
    \/ \E i \in 1..PoolItems : i \in DOMAIN fin /\ WorkerClassifies(i)
    \/ \E i \in 1..PoolItems : i \in DOMAIN fin /\ WorkerWakes(i)
    \/ FilterCollects

\* one FilterItems call on any input, under any configuration
SpecFilter == InitFilter /\ [][NextFilter]_vars

(* The gate against a classifier that may answer the loading status on      *)
(* every request.  WorkerClassifies counts the requests of a listing up to  *)
(* MaxRequests; the recursion of classifyItem has no such limit, and        *)
(* WorkerLoadsAgain is the request that gets the loading status once the    *)
(* count has reached the bound (the count stays there).                     *)
WorkerLoadsAgain(i) ==
    /\ wpc[i] = "run"
    /\ ~HasNoImage(fin[i])
    /\ reqs[i] + 1 >= MaxRequests
    /\ classifyResponse(LoadingAnswer).retry
    /\ answers' = [answers EXCEPT ![i] = AnswerKind(LoadingAnswer)]
    /\ wpc' = [wpc EXCEPT ![i] = "sleep"]
    /\ UNCHANGED <<storeVars, cfgVars, loopVars, cycleVars, fpc, fin, fi, sem, wg,
                   results, writes, reqs, fout>>

\* an enabled filter is called with any input of up to MaxItems listings
InitGate ==
    /\ now = 0
    /\ rows = NewDedupStore({}, 0, FALSE)
    /\ apiKey = "hf_key"
    /\ enableFlag = TRUE
    /\ enabled = NewAIFilter(apiKey, enableFlag)
    /\ ev = NoEvent
    /\ delivered = {}
    /\ live = {}
    /\ firstMark = NoMarks
    /\ CycleIdle
    /\ RetryIdle
    /\ RunIdle
    /\ ScannerIdle
    /\ ListenIdle
    /\ \E items \in FilterInputs : FilterAt("start", items)

NextGate ==
    \/ FilterReturnsInput \/ FilterBegins \/ DispatchBypass \/ DispatchWorker
    \/ \E i \in 1..MaxItems : i \in DOMAIN fin /\ WorkerClassifies(i)
    \/ \E i \in 1..MaxItems : i \in DOMAIN fin /\ WorkerLoadsAgain(i)
    \/ \E i \in 1..MaxItems : i \in DOMAIN fin /\ WorkerWakes(i)
    \/ FilterCollects

(* Every goroutine that can take a step takes one: the dispatcher, each     *)
(* worker's request (which completes in finite time) and each worker's      *)
(* sleep.  What the classifier answers is not constrained.                  *)
GateFairness ==
    /\ WF_vars(FilterReturnsInput \/ FilterBegins \/ DispatchBypass
               \/ DispatchWorker \/ FilterCollects)
    /\ \A i \in 1..MaxItems :
        /\ WF_vars(i \in DOMAIN fin
                   /\ (WorkerClassifies(i) \/ WorkerLoadsAgain(i)))
        /\ WF_vars(i \in DOMAIN fin /\ WorkerWakes(i))

SpecGateFair == InitGate /\ [][NextGate]_vars /\ GateFairness

----------------------------------------------------------------------------
(* searchWithRetry, one pass of its loop at a time *)

\* what b.scanner.SearchWithFallback returns: listings, or an error
SignError == "generating DPoP token"

SearchErrors == {"status 500", "timeout", SignError}

\* generateUUID: sixteen bytes of crypto/rand, a value not drawn before (d
\* values were drawn so far; a repeated draw is left out of the model)
generateUUID(d) == d + 1

\* the token with the nonces of the first one
generateDPoPCached(key, iat, jti, uuid) ==
    [key |-> key, htu |-> "search", htm |-> "POST", iat |-> iat,
     jti |-> generateUUID(0), uuid |-> generateUUID(1)]

\* generateDPoP: the claims, signed with the scanner's key
generateDPoP(key, iat, jti, uuid) ==
    [key |-> key, htu |-> "search", htm |-> "POST", iat |-> iat,
     jti |-> jti, uuid |-> uuid]

\* the keys ecdsa.GenerateKey may return in NewScanner
Keys == {"key1", "key2"}

SearchOutcomes ==
    [items : {<<>>, <<[ID |-> 1, Price |-> 5000, ImageURLs |-> <<"img">>,
                      Created |-> 0]>>}, err : {""}]
    \cup [items : {<<>>}, err : SearchErrors]

\* rand.Intn(1000): the smallest and the largest jitter, in milliseconds
Jitters == {0, JitterBound - 1}

\* the shift by attempt instead of attempt-1
backoffFromTwo(k) == (2 ^ k) * 1000

\* backoff := time.Duration(1<<uint(attempt-1)) * time.Second, in milliseconds
backoff(k) == (2 ^ (k - 1)) * 1000

\* the loop condition attempt <= maxRetries
hasAttemptStrict(a, n) == a < n

hasAttempt(a, n) == a <= n

InitRetry ==
    /\ now = 0
    /\ rows = NewDedupStore({}, 0, FALSE)
    /\ apiKey = "hf_key"
    /\ enableFlag = TRUE
    /\ enabled = NewAIFilter(apiKey, enableFlag)
    /\ ev = NoEvent
    /\ delivered = {}
    /\ live = {}
    /\ firstMark = NoMarks
    /\ CycleIdle
    /\ FilterIdle
    /\ RunIdle
    /\ \E k \in Keys : ScannerAt(k)
    /\ ListenIdle
    /\ \E n \in 0..MaxN : RetryAt("loop", n)

\* one pass of the loop: the sleep before a retry, the search call (Search
\* signs a token, draws a session id and sends the request), its outcome
RetryAttempt ==
    /\ sPc = "loop"
    /\ hasAttempt(attempt, maxRetries)
    /\ \E jitter \in Jitters :
        waits' = IF attempt > 0
                 THEN Append(waits, [before |-> attempt,
                                     ms |-> backoff(attempt) + jitter])
                 ELSE waits
    /\ \E o \in SearchOutcomes :
        /\ outcomes' = Append(outcomes, o.err)
        /\ IF o.err = SignError
           THEN UNCHANGED <<draws, tokens, sentReqs>>
           ELSE LET jti       == generateUUID(draws)
                    uuid      == generateUUID(draws + 1)
                    dpopToken == generateDPoP(privateKey, now, jti, uuid)
                IN  /\ draws' = draws + 3
                    /\ tokens' = Append(tokens, dpopToken)
                    /\ sentReqs' = Append(sentReqs, dpopToken)
        /\ IF o.err = ""
           THEN /\ sRet' = [items |-> o.items, err |-> "", wraps |-> ""]
                /\ sPc' = "returned"
                /\ UNCHANGED <<attempt, lastErr>>
           ELSE /\ lastErr' = o.err
                /\ attempt' = attempt + 1
                /\ UNCHANGED <<sPc, sRet>>
    /\ UNCHANGED <<storeVars, cfgVars, cycleVars, filterVars, runVars, parseVars,
                   listenVars, paced, privateKey, maxRetries>>

\* the loop is over: return nil, fmt.Errorf("all %d retries failed: %w", ...)
RetryGivesUp ==
    /\ sPc = "loop"
    /\ ~hasAttempt(attempt, maxRetries)
    /\ sRet' = [items |-> <<>>, err |-> "all retries failed", wraps |-> lastErr]
    /\ sPc' = "returned"
    /\ UNCHANGED <<storeVars, cfgVars, cycleVars, filterVars, runVars, scannerVars,
                   listenVars, paced, maxRetries, attempt, lastErr, outcomes, waits>>

NextRetry == RetryAttempt \/ RetryGivesUp

\* one searchWithRetry call with any maxRetries and any search client
SpecRetry == InitRetry /\ [][NextRetry]_vars

----------------------------------------------------------------------------
(* main, Bot.run, safeScan and the command listener.  The scan cycle is    *)
(* seen from its caller: it works, it may wait inside the gate for a       *)
(* loading classifier, it completes, or it panics.                         *)

\* where Bot.run stands while b.safeScan() executes: in the call
RunSpawnsSafeScan == "select"

RunCallsSafeScan == "scan"

otherVars == <<storeVars, cfgVars, scanVars, filterVars, retryVars, scannerVars,
               listenVars, paced>>

InitRun ==
    /\ now = 0
    /\ rows = NewDedupStore({}, 0, FALSE)
    /\ apiKey = "hf_key"
    /\ enableFlag = TRUE
    /\ enabled = NewAIFilter(apiKey, enableFlag)
    /\ ev = NoEvent
    /\ delivered = {}
    /\ live = {}
    /\ firstMark = NoMarks
    /\ CycleIdle
    /\ FilterIdle
    /\ RetryIdle
    /\ ScannerIdle
    /\ ListenIdle
    /\ \E m \in {"once", "loop"} : RunAt("start", m)

\* main: with -once the cycle is called directly; else bot.run() registers
\* the signals, starts the listener and the ticker and calls the first safeScan
MainStarts ==
    /\ mpc = "start"
    /\ mpc' = "running"
    /\ cpc' = "work"
    /\ running' = running + 1
    /\ IF mode = "once"
       THEN UNCHANGED <<rpc, lpc>>
       ELSE rpc' = RunCallsSafeScan /\ lpc' = "select"
    /\ UNCHANGED <<otherVars, lastScanTime, runCount, mode, tick, quit,
                   stopClosed, panics, signalled>>

\* the cycle runs on: it completes, a classification worker gets the loading
\* status and sleeps, the cycle's goroutine panics, or a worker goroutine panics
CycleStep ==
    /\ mpc = "running"
    /\ cpc = "work"
    /\ \E outcome \in {"done", "loading", "panic", "worker_panic"} :
        CASE outcome = "done" ->
                /\ lastScanTime' = now
                /\ runCount' = runCount + 1
                /\ cpc' = "idle"
                /\ running' = running - 1
                /\ rpc' = IF mode = "once" THEN rpc ELSE "select"
                /\ UNCHANGED <<mpc, panics>>
          [] outcome = "loading" ->
                /\ cpc' = "gate_sleep"
                /\ UNCHANGED <<lastScanTime, runCount, running, rpc, mpc, panics>>
          [] outcome = "panic" ->
                /\ panics < MaxPanics
                /\ IF mode = "once"
                   THEN /\ mpc' = "crashed"
                        /\ UNCHANGED <<cpc, running, rpc, panics>>
                   ELSE /\ rpc' = "cooldown"
                        /\ cpc' = "idle"
                        /\ running' = running - 1
                        /\ panics' = panics + 1
                        /\ UNCHANGED mpc
                /\ UNCHANGED <<lastScanTime, runCount>>
          [] outcome = "worker_panic" ->
                /\ mpc' = "crashed"
                /\ UNCHANGED <<lastScanTime, runCount, cpc, running, rpc, panics>>
    /\ UNCHANGED <<otherVars, mode, tick, quit, stopClosed, lpc, signalled>>

\* classifyItem: time.Sleep(20 * time.Second) ends and the request is repeated
GateWakes ==
    /\ mpc = "running"
    /\ cpc = "gate_sleep"
    /\ cpc' = "work"
    /\ UNCHANGED <<otherVars, lastScanTime, runCount, mode, mpc, rpc, tick, quit,
                   stopClosed, lpc, running, panics, signalled>>

\* safeScan's deferred function: SendError, time.Sleep(30 * time.Second) ends
CooldownEnds ==
    /\ mpc = "running"
    /\ rpc = "cooldown"
    /\ rpc' = "select"
    /\ UNCHANGED <<otherVars, lastScanTime, runCount, mode, mpc, cpc, tick, quit,
                   stopClosed, lpc, running, panics, signalled>>

\* the ticker sends; a tick that finds the channel full is dropped
TickArrives ==
    /\ mpc = "running"
    /\ rpc \in {"scan", "cooldown", "select"}
    /\ tick = 0
    /\ tick' = 1
    /\ UNCHANGED <<otherVars, lastScanTime, runCount, mode, mpc, rpc, cpc, quit,
                   stopClosed, lpc, running, panics, signalled>>

\* SIGINT or SIGTERM is delivered to the process
SignalArrives ==
    /\ mpc = "running"
    /\ rpc \in {"scan", "cooldown", "select"}
    /\ quit = 0
    /\ quit' = 1
    /\ signalled' = TRUE
    /\ UNCHANGED <<otherVars, lastScanTime, runCount, mode, mpc, rpc, cpc, tick,
                   stopClosed, lpc, running, panics>>

\* select: case <-ticker.C: b.safeScan()
TickFires ==
    /\ mpc = "running"
    /\ rpc = "select"
    /\ tick = 1
    /\ runCount < MaxLoops
    /\ tick' = 0
    /\ rpc' = RunCallsSafeScan
    /\ cpc' = "work"
    /\ running' = running + 1
    /\ UNCHANGED <<otherVars, lastScanTime, runCount, mode, mpc, quit, stopClosed,
                   lpc, panics, signalled>>

\* select: case sig := <-quit: return; the deferred calls stop the ticker and
\* close listenerStop
RunQuits ==
    /\ mpc = "running"
    /\ rpc = "select"
    /\ quit = 1
    /\ quit' = 0
    /\ rpc' = "returned"
    /\ stopClosed' = TRUE
    /\ UNCHANGED <<otherVars, lastScanTime, runCount, mode, mpc, cpc, tick, lpc,
                   running, panics, signalled>>

\* main returns after the single cycle, or after bot.run(): the process exits
MainReturns ==
    /\ mpc = "running"
    /\ \/ mode = "once" /\ cpc = "idle"
       \/ mode = "loop" /\ rpc = "returned"
    /\ mpc' = "exited"
    /\ UNCHANGED <<otherVars, lastScanTime, runCount, mode, rpc, cpc, tick, quit,
                   stopClosed, lpc, running, panics, signalled>>

\* ListenForCommands: select { case <-stopChan: return; default: ... }
ListenerSelects ==
    /\ mpc = "running"
    /\ lpc = "select"
    /\ lpc' = IF stopClosed THEN "stopped" ELSE "poll"
    /\ UNCHANGED <<otherVars, lastScanTime, runCount, mode, mpc, rpc, cpc, tick,
                   quit, stopClosed, running, panics, signalled>>

\* getUpdates returns (an error, or updates that are then handled); sleep
ListenerPolls ==
    /\ mpc = "running"
    /\ lpc = "poll"
    /\ lpc' = "sleep"
    /\ UNCHANGED <<otherVars, lastScanTime, runCount, mode, mpc, rpc, cpc, tick,
                   quit, stopClosed, running, panics, signalled>>

\* time.Sleep ends; back to the select
ListenerWakes ==
    /\ mpc = "running"
    /\ lpc = "sleep"
    /\ lpc' = "select"
    /\ UNCHANGED <<otherVars, lastScanTime, runCount, mode, mpc, rpc, cpc, tick,
                   quit, stopClosed, running, panics, signalled>>

NextRun ==
    \/ MainStarts \/ CycleStep \/ GateWakes \/ CooldownEnds \/ TickArrives
    \/ SignalArrives \/ TickFires \/ RunQuits \/ MainReturns
    \/ ListenerSelects \/ ListenerPolls \/ ListenerWakes

\* one process, in either mode
SpecRun == InitRun /\ [][NextRun]_vars

\* the goroutines keep running; a select with several ready cases picks one
\* at random, so a case that is ready again and again is taken in the end
SpecRunFair ==
    /\ SpecRun
    /\ WF_vars(MainStarts) /\ WF_vars(CycleStep) /\ WF_vars(GateWakes)
    /\ WF_vars(CooldownEnds) /\ WF_vars(MainReturns)
    /\ WF_vars(ListenerSelects) /\ WF_vars(ListenerPolls) /\ WF_vars(ListenerWakes)
    /\ SF_vars(RunQuits)

----------------------------------------------------------------------------
(* Scanner.Search: what it does with the HTTP response.  The text of a     *)
(* JSON value is a sequence of one-character strings.  The body of an      *)
(* error response is a sequence of ASCII code points, one byte each.       *)
(* Numbers stay below 2^31, where a float64 holds every integer exactly.   *)

DigitChars == <<"0", "1", "2", "3", "4", "5", "6", "7", "8", "9">>

IsDigit(c) == \E d \in DOMAIN DigitChars : DigitChars[d] = c

DigitVal(c) == (CHOOSE d \in DOMAIN DigitChars : DigitChars[d] = c) - 1

\* the text after its leading decimal digits
RECURSIVE SkipDigits(_)
SkipDigits(s) ==
    IF Len(s) > 0 /\ IsDigit(s[1]) THEN SkipDigits(Tail(s)) ELSE s

\* the leading decimal digits of the text
LeadDigits(s) == SubSeq(s, 1, Len(s) - Len(SkipDigits(s)))

\* the number a text of decimal digits denotes; the empty text denotes 0
RECURSIVE DigitsValue(_)
DigitsValue(s) ==
    IF s = <<>> THEN 0
    ELSE DigitsValue(SubSeq(s, 1, Len(s) - 1)) * 10 + DigitVal(s[Len(s)])

\* the decimal text of n >= 0, as the marketplace writes it
RECURSIVE Decimal(_)
Decimal(n) ==
    IF n < 10 THEN <<DigitChars[n + 1]>>
    ELSE Decimal(n \div 10) \o <<DigitChars[(n % 10) + 1]>>

\* encoding/json: the text is a JSON number literal
isValidNumber(s) ==
    LET a == IF Len(s) > 0 /\ s[1] = "-" THEN Tail(s) ELSE s
        b == IF Len(a) > 0 /\ a[1] = "0" THEN Tail(a) ELSE SkipDigits(a)
        c == IF Len(b) >= 2 /\ b[1] = "." /\ IsDigit(b[2])
             THEN SkipDigits(Tail(b)) ELSE b
        d == IF Len(c) >= 2 /\ c[1] \in {"e", "E"}
             THEN LET x == Tail(c)
                      y == IF x[1] \in {"+", "-"} THEN Tail(x) ELSE x
                  IN  IF y = <<>> THEN c ELSE SkipDigits(y)
             ELSE c
    IN  Len(a) > 0 /\ IsDigit(a[1]) /\ d = <<>>

\* json.Number.Int64, strconv.Atoi and strconv.ParseInt(s, 10, 64): an
\* optional sign and decimal digits; v is 0 when the text is refused
ParseInt(s) ==
    LET signed == Len(s) > 0 /\ s[1] \in {"+", "-"}
        body   == IF signed THEN Tail(s) ELSE s
    IN  IF Len(body) > 0 /\ SkipDigits(body) = <<>>
        THEN [ok |-> TRUE,
              v  |-> IF signed /\ s[1] = "-" THEN 0 - DigitsValue(body)
                     ELSE DigitsValue(body)]
        ELSE [ok |-> FALSE, v |-> 0]

\* json.Number.Float64, strconv.ParseFloat(s, 64), for decimal texts: the
\* digits of the mantissa and the place of the decimal point among them
ParseFloat(s) ==
    LET signed == Len(s) > 0 /\ s[1] \in {"+", "-"}
        a      == IF signed THEN Tail(s) ELSE s
        int    == LeadDigits(a)
        b      == SkipDigits(a)
        dotted == Len(b) > 0 /\ b[1] = "."
        frac   == IF dotted THEN LeadDigits(Tail(b)) ELSE <<>>
        c      == IF dotted THEN SkipDigits(Tail(b)) ELSE b
        hasExp == Len(c) > 0 /\ c[1] \in {"e", "E"}
        x      == IF hasExp THEN Tail(c) ELSE c
        eSign  == hasExp /\ Len(x) > 0 /\ x[1] \in {"+", "-"}
        y      == IF eSign THEN Tail(x) ELSE x
        eDig   == IF hasExp THEN LeadDigits(y) ELSE <<>>
        rest   == IF hasExp THEN SkipDigits(y) ELSE c
        e      == IF eSign /\ x[1] = "-" THEN 0 - DigitsValue(eDig)
                  ELSE DigitsValue(eDig)
    IN  IF /\ Len(int) + Len(frac) > 0
           /\ hasExp => Len(eDig) > 0
           /\ rest = <<>>
        THEN [ok |-> TRUE, neg |-> signed /\ s[1] = "-",
              digits |-> int \o frac, point |-> Len(int) + e]
        ELSE [ok |-> FALSE, neg |-> FALSE, digits |-> <<>>, point |-> 0]

\* int(f) and int64(f): the fraction is dropped
Trunc(f) ==
    LET whole == [i \in 1..f.point |->
                    IF i <= Len(f.digits) THEN f.digits[i] ELSE "0"]
        v     == IF f.point <= 0 THEN 0 ELSE DigitsValue(whole)
    IN  IF f.neg THEN 0 - v ELSE v

\* the conversion without the float step
jsonNumberToIntNoFloat(n) ==
    IF n = <<>> THEN 0 ELSE ParseInt(n).v

jsonNumberToInt(n) ==
    IF n = <<>> THEN 0
    ELSE LET v == ParseInt(n)
         IN  IF v.ok THEN v.v
             ELSE LET f == ParseFloat(n)
                  IN  IF f.ok THEN Trunc(f)
                      ELSE ParseInt(n).v    \* i, _ := strconv.Atoi(string(n))

jsonNumberToInt64(n) ==
    IF n = <<>> THEN 0
    ELSE LET v == ParseInt(n)
         IN  IF v.ok THEN v.v
             ELSE LET f == ParseFloat(n)
                  IN  IF f.ok THEN Trunc(f)
                      ELSE ParseInt(n).v    \* strconv.ParseInt(string(n), 10, 64)

\* json.Unmarshal of one JSON value into a field of type json.Number: a
\* number keeps its text; a string is taken when it is a number literal and
\* fails the decoding otherwise; null leaves the field empty; any other
\* value fails the decoding
decodeNumber(v) ==
    CASE v.kind = "number" -> [ok |-> TRUE, n |-> v.text]
      [] v.kind = "string" -> IF isValidNumber(v.text)
                              THEN [ok |-> TRUE, n |-> v.text]
                              ELSE [ok |-> FALSE, n |-> <<>>]
      [] v.kind = "null"   -> [ok |-> TRUE, n |-> <<>>]
      [] OTHER             -> [ok |-> FALSE, n |-> <<>>]

\* json.Unmarshal(body, &apiResp) succeeds
unmarshalOK(r) ==
    /\ r.json
    /\ \A i \in DOMAIN r.items :
        decodeNumber(r.items[i].price).ok /\ decodeNumber(r.items[i].created).ok

\* one pass of the conversion loop; Created is in seconds since the epoch
convertItem(raw) ==
    [ID        |-> raw.id,
     Price     |-> jsonNumberToInt(decodeNumber(raw.price).n),
     Created   |-> jsonNumberToInt64(decodeNumber(raw.created).n),
     ImageURLs |-> raw.thumbnails]

Ellipsis == <<46, 46, 46>>      \* "..."

truncate(s, maxLen) ==
    LET cleaned == SelectSeq(s, LAMBDA r : ~(r < 32 /\ r # 10 /\ r # 13 /\ r # 9))
    IN  IF Len(cleaned) > maxLen THEN SubSeq(cleaned, 1, maxLen) \o Ellipsis
        ELSE cleaned

\* what Search returns for the response r
SearchResult(r) ==
    IF r.status # StatusOK
    THEN [items |-> <<>>, err |-> "mercari API returned",
          excerpt |-> truncate(r.text, ExcerptLen)]
    ELSE IF ~unmarshalOK(r)
    THEN [items |-> <<>>, err |-> "parsing response", excerpt |-> <<>>]
    ELSE [items |-> [i \in DOMAIN r.items |-> convertItem(r.items[i])],
          err |-> "", excerpt |-> <<>>]

(* The responses of the marketplace *)

TextChars == {"0", "1", ".", "-", "e", "a"}

Texts == SeqsUpTo(TextChars, MaxText)

Value(kind, text) == [kind |-> kind, text |-> text]

\* the integer n as a number, as a string, and with a fraction of zero
Encodings(n) ==
    {Value("number", Decimal(n)), Value("string", Decimal(n)),
     Value("number", Decimal(n) \o <<".", "0">>),
     Value("string", Decimal(n) \o <<".", "0">>)}

Amounts == {0, 7, 15000, 1700000000}

\* the JSON values a numeric field may hold; a number is a number literal
\* wherever the body is JSON at all
FieldValues ==
    {Value("number", t) : t \in {u \in Texts : isValidNumber(u)}}
    \cup {Value("string", t) : t \in Texts}
    \cup {Value("null", <<>>), Value("bool", <<>>)}
    \cup UNION {Encodings(n) : n \in Amounts}

searchAPIItem(id, price, created) ==
    [id |-> id, price |-> price, created |-> created, thumbnails |-> <<"img">>]

PlainItem == searchAPIItem(1, Value("number", Decimal(15000)),
                        Value("number", Decimal(1700000000)))

\* listings with one field in any encoding, alone or next to a plain listing
OddItems ==
    {searchAPIItem(2, v, PlainItem.created) : v \in FieldValues}
    \cup {searchAPIItem(2, PlainItem.price, v) : v \in FieldValues}

ItemLists ==
    {<<>>} \cup {<<o>> : o \in OddItems} \cup {<<PlainItem, o>> : o \in OddItems}
    \cup {<<o, PlainItem>> : o \in OddItems}

\* bodies of error responses: a few bytes, control characters among them,
\* followed by n letters
BodyBytes == {1, 9, 10, 13, 31, 32, 97}

Padded(prefix, n) == prefix \o [i \in 1..n |-> 97]

BodyTexts ==
    {Padded(p, n) : p \in SeqsUpTo(BodyBytes, MaxPrefix),
                    n \in {0} \cup ((ExcerptLen - 2)..(ExcerptLen + 1))}

ErrorStatuses == {204, 301, 403, 429, StatusOther, StatusLoading}

Responses ==
    {[status |-> StatusOK, json |-> TRUE, items |-> l, text |-> <<>>] :
        l \in ItemLists}
    \cup {[status |-> s, json |-> FALSE, items |-> <<>>, text |-> t] :
        s \in ErrorStatuses \cup {StatusOK}, t \in BodyTexts}

\* Search has sent its request and the response has arrived
InitSearch ==
    /\ now = 0
    /\ rows = NewDedupStore({}, 0, FALSE)
    /\ apiKey = "hf_key"
    /\ enableFlag = TRUE
    /\ enabled = NewAIFilter(apiKey, enableFlag)
    /\ ev = NoEvent
    /\ delivered = {}
    /\ live = {}
    /\ firstMark = NoMarks
    /\ CycleIdle
    /\ FilterIdle
    /\ RetryIdle
    /\ RunIdle
    /\ privateKey = "key1" /\ draws = 0 /\ tokens = <<>> /\ sentReqs = <<>>
    /\ ListenIdle
    /\ searchPc = "response"
    /\ resp \in Responses
    /\ searchRet = NoSearchReturn

\* Search reads the response and returns
SearchReturns ==
    /\ searchPc = "response"
    /\ searchRet' = SearchResult(resp)
    /\ searchPc' = "returned"
    /\ UNCHANGED <<storeVars, cfgVars, cycleVars, filterVars, retryVars, runVars,
                   listenVars, paced, dpopVars, resp>>

NextSearch == SearchReturns

\* one Search call on any response
SpecSearch == InitSearch /\ [][NextSearch]_vars

----------------------------------------------------------------------------
(* The command listener (Notifier.ListenForCommands with Bot.getStatus)    *)
(* beside the scan loop.  Both goroutines run unsynchronised: the scan     *)
(* loop marks listings and ends its cycles with two plain writes, the      *)
(* listener reads the same fields with plain reads.  The text of a         *)
(* message is a sequence of one-character strings.                         *)

\* strings.HasPrefix
HasPrefix(s, prefix) ==
    Len(s) >= Len(prefix) /\ SubSeq(s, 1, Len(prefix)) = prefix

CheckCmd == <<"/", "c", "h", "e", "c", "k">>

StatusCmd == <<"/", "s", "t", "a", "t", "u", "s">>

\* fmt.Sprintf("%d", id)
FormatInt(n) == IF n < 0 THEN <<"-">> \o Decimal(0 - n) ELSE Decimal(n)

\* the security check passes for every chat
chatAllowedAny(id, c) == TRUE

\* the security check: fmt.Sprintf("%d", up.Message.Chat.ID) == n.chatID
chatAllowed(id, c) == FormatInt(id) = c

\* strings.HasPrefix(text, "/check") || strings.HasPrefix(text, "/status")
isCommand(text) == HasPrefix(text, CheckCmd) \/ HasPrefix(text, StatusCmd)

\* the table after the SELECT of Count with every row deleted
tableAfterCountEmptied(t) == {}

\* the table after the SELECT of Count
tableAfterCount(t) == t

(* The updates Telegram delivers: with or without a message, the message   *)
(* with or without a chat object, from the configured chat or another one  *)
Update(hasMessage, hasChat, id, text) ==
    [hasMessage |-> hasMessage, hasChat |-> hasChat, chat |-> id, text |-> text]

Updates ==
    {Update(FALSE, FALSE, 0, <<>>),
     Update(TRUE, TRUE, 42, <<>>),
     Update(TRUE, FALSE, 0, <<>>),
     Update(TRUE, FALSE, 0, CheckCmd),
     Update(TRUE, TRUE, 42, CheckCmd),
     Update(TRUE, TRUE, 42, StatusCmd \o <<"x">>),
     Update(TRUE, TRUE, 42, <<"x">> \o CheckCmd),
     Update(TRUE, TRUE, 0 - 42, StatusCmd)}

\* a lastScanTime read while it is being written
TornTime == 0 - 2

TornBy == 0 - 1

\* what a plain read of b.lastScanTime can return, with the cycle the value
\* comes from: the stored value, or, while the scan loop is writing the
\* field, the value being written or a mix of the two
TimeReads ==
    {[lastScan |-> lastScanTime, by |-> timeBy]}
    \cup (IF wpos = "time"
          THEN {[lastScan |-> now, by |-> runCount + 1],
                [lastScan |-> TornTime, by |-> TornBy]}
          ELSE {})

\* bot.run() has started the listener and the first cycle
InitListen ==
    /\ now = 0
    /\ rows = NewDedupStore({}, 0, FALSE)
    /\ apiKey = "hf_key"
    /\ enableFlag = TRUE
    /\ enabled = NewAIFilter(apiKey, enableFlag)
    /\ ev = NoEvent
    /\ delivered = {}
    /\ live = {}
    /\ firstMark = NoMarks
    /\ CycleIdle
    /\ FilterIdle
    /\ RetryIdle
    /\ RunIdle
    /\ ScannerIdle
    /\ ListenAt("select", "cycle", <<"4", "2">>)

nonListenVars ==
    <<cfgVars, scanVars, filterVars, retryVars, scannerVars, mode, mpc, rpc, cpc,
      tick, quit, lpc, running, panics, signalled, ev, delivered, chatID, paced>>

\* select { case <-stopChan: return; default: ... }
ListenSelects ==
    /\ upc = "select"
    /\ upc' = IF stopClosed THEN "stopped" ELSE "poll"
    /\ UNCHANGED <<nonListenVars, now, rows, live, firstMark, lastScanTime,
                   runCount, stopClosed, batch, uIdx, snap, replies, polls, wpos,
                   timeBy>>

\* getUpdates: an error (transport, status, undecodable body) and the 5 s
\* backoff, or a list of updates
ListenPolls ==
    /\ upc = "poll"
    /\ polls < MaxPolls
    /\ polls' = polls + 1
    /\ \/ upc' = "sleep" /\ UNCHANGED <<batch, uIdx>>
       \/ \E us \in SeqsUpTo(Updates, MaxUpdates) :
            batch' = us /\ uIdx' = 1 /\ upc' = "handle"
    /\ UNCHANGED <<nonListenVars, now, rows, live, firstMark, lastScanTime,
                   runCount, stopClosed, snap, replies, wpos, timeBy>>

\* one pass of the loop over the updates, up to the call of getStatus; the
\* read of up.Message.Chat.ID through a nil Chat panics, and a panic in this
\* goroutine ends the process
ListenHandles ==
    /\ upc = "handle"
    /\ uIdx <= Len(batch)
    /\ LET up == batch[uIdx]
       IN  IF ~up.hasMessage \/ up.text = <<>>
           THEN uIdx' = uIdx + 1 /\ UNCHANGED upc
           ELSE IF ~up.hasChat
           THEN upc' = "crashed" /\ UNCHANGED uIdx
           ELSE IF ~chatAllowed(up.chat, chatID)
           THEN uIdx' = uIdx + 1 /\ UNCHANGED upc
           ELSE IF isCommand(up.text)
           THEN upc' = "status" /\ UNCHANGED uIdx
           ELSE uIdx' = uIdx + 1 /\ UNCHANGED upc
    /\ UNCHANGED <<nonListenVars, now, rows, live, firstMark, lastScanTime,
                   runCount, stopClosed, batch, snap, replies, polls, wpos,
                   timeBy>>

\* getStatus reads b.lastScanTime
StatusReadsTime ==
    /\ upc = "status"
    /\ \E r \in TimeReads :
        snap' = [NoStatus EXCEPT !.lastScan = r.lastScan, !.by = r.by]
    /\ upc' = "status_count"
    /\ UNCHANGED <<nonListenVars, now, rows, live, firstMark, lastScanTime,
                   runCount, stopClosed, batch, uIdx, replies, polls, wpos,
                   timeBy>>

\* getStatus reads b.runCount and calls b.store.Count(); the listener hands
\* the message to sendMessage and goes to the next update
StatusReplies ==
    /\ upc = "status_count"
    /\ \E ioErr \in BOOLEAN :
        LET st == [snap EXCEPT !.cycles = runCount, !.count = Count(rows, ioErr)]
        IN  /\ replies' = Append(replies, [update |-> batch[uIdx], status |-> st])
            /\ snap' = st
    /\ rows' = tableAfterCount(rows)
    /\ uIdx' = uIdx + 1
    /\ upc' = "handle"
    /\ UNCHANGED <<nonListenVars, now, live, firstMark, lastScanTime, runCount,
                   stopClosed, batch, polls, wpos, timeBy>>

\* the updates are handled: time.Sleep(1 * time.Second)
ListenSleeps ==
    /\ upc = "handle"
    /\ uIdx > Len(batch)
    /\ upc' = "sleep"
    /\ UNCHANGED <<nonListenVars, now, rows, live, firstMark, lastScanTime,
                   runCount, stopClosed, batch, uIdx, snap, replies, polls, wpos,
                   timeBy>>

\* the sleep ends: back to the select
ListenWakes ==
    /\ upc = "sleep"
    /\ upc' = "select"
    /\ UNCHANGED <<nonListenVars, now, rows, live, firstMark, lastScanTime,
                   runCount, stopClosed, batch, uIdx, snap, replies, polls, wpos,
                   timeBy>>

\* the scan loop, in a cycle: scanBrand marks a listing as seen
CycleMarks ==
    /\ wpos = "cycle" /\ upc # "crashed"
    /\ \E id \in IDs :
        LET m == MarkSeen(rows, id, Brands[1].Name, Names[1], Prices[1], now, FALSE)
        IN  /\ rows' = m.rows
            /\ rows' # rows
            /\ live' = live \cup {id}
            /\ firstMark' = Marked(firstMark, rows, m.rows, id, now)
    /\ UNCHANGED <<nonListenVars, now, lastScanTime, runCount, stopClosed, upc,
                   batch, uIdx, snap, replies, polls, wpos, timeBy>>

\* the cycle comes to its last two statements; a minute has passed
CycleFinishes ==
    /\ wpos = "cycle" /\ upc # "crashed"
    /\ runCount < MaxLoops
    /\ now' = now + 1
    /\ wpos' = "time"
    /\ UNCHANGED <<nonListenVars, rows, live, firstMark, lastScanTime, runCount,
                   stopClosed, upc, batch, uIdx, snap, replies, polls, timeBy>>

\* b.lastScanTime = time.Now()
CycleWritesTime ==
    /\ wpos = "time" /\ upc # "crashed"
    /\ lastScanTime' = now
    /\ timeBy' = runCount + 1
    /\ wpos' = "count"
    /\ UNCHANGED <<nonListenVars, now, rows, live, firstMark, runCount, stopClosed,
                   upc, batch, uIdx, snap, replies, polls>>

\* b.runCount++; the next cycle starts at the next tick
CycleCounts ==
    /\ wpos = "count" /\ upc # "crashed"
    /\ runCount' = runCount + 1
    /\ wpos' = "cycle"
    /\ UNCHANGED <<nonListenVars, now, rows, live, firstMark, lastScanTime,
                   stopClosed, upc, batch, uIdx, snap, replies, polls, timeBy>>

\* the scan loop receives the signal between two cycles: run returns and its
\* deferred call closes listenerStop
LoopReturns ==
    /\ wpos = "cycle" /\ upc # "crashed"
    /\ wpos' = "returned"
    /\ stopClosed' = TRUE
    /\ UNCHANGED <<nonListenVars, now, rows, live, firstMark, lastScanTime,
                   runCount, upc, batch, uIdx, snap, replies, polls, timeBy>>

NextListen ==
    \/ ListenSelects \/ ListenPolls \/ ListenHandles \/ StatusReadsTime
    \/ StatusReplies \/ ListenSleeps \/ ListenWakes
    \/ CycleMarks \/ CycleFinishes \/ CycleWritesTime \/ CycleCounts
    \/ LoopReturns

\* the listener and the scan loop of one process, in every interleaving
SpecListen == InitListen /\ [][NextListen]_vars

----------------------------------------------------------------------------
(* The notification loop and the store *)

\* C1: every listing that survives the gate has MarkSeen called with its id
\* after the notification attempt, whether SendDeal succeeded or failed.
C1_MarkSeenAfterEveryAttempt ==
    ev.type = "notify" => ev.marked

\* C2: no id is the subject of two successful SendDeal calls while its row has
\* not been purged.
C2_NeverTheSameDealTwice ==
    ~(ev.type = "notify" /\ ev.sendOK /\ ev.again)

\* C3: MarkSeen is an insert-if-absent.  Whenever the database executes the
\* statement of a MarkSeen(id) call, exactly one row has that id afterwards,
\* Count() has grown by one if the id was absent and not at all if it was
\* present (so by exactly one over two calls), a call on a present id leaves
\* the table as it was, and the call returns no error.
C3_MarkSeenIdempotent ==
    [][ (ev'.marked /\ ~ev'.ioErr) =>
            /\ Cardinality(RowsOf(rows', ev'.id)) = 1
            /\ Count(rows', FALSE)
                 = Count(rows, FALSE) + (IF RowsOf(rows, ev'.id) = {} THEN 1 ELSE 0)
            /\ RowsOf(rows, ev'.id) # {} => rows' = rows
            /\ ~ev'.err ]_vars

\* a second MarkSeen of an id has been executed
C3_Witness ==
    ev.type = "mark" /\ ev.marked /\ ~ev.ioErr /\ ev.existed

\* C4: in every state of the store, a lookup the database answers returns
\* true exactly for the ids that MarkSeen recorded and cleanup has not purged.
C4_HasSeenIffRecorded ==
    \A id \in IDs : HasSeen(rows, id, FALSE) <=> id \in live

\* a restart has purged one id while another is still recorded
C4_Witness ==
    ev.type = "restart" /\ ev.purged # {} /\ live # {}

\* C5: after a restart whose cleanup the database executes, every row older
\* than 7 days is gone and every row newer than 7 days is still there.
C5_RetentionOnRestart ==
    [][ (ev'.type = "restart" /\ ~ev'.ioErr) =>
            /\ rows' \subseteq rows
            /\ \A r \in rows :
                /\ now - r.seen_at > RetentionMinutes => r \notin rows'
                /\ now - r.seen_at < RetentionMinutes => r \in rows' ]_vars

\* a restart has purged an old row and kept a newer one
C5_Witness ==
    /\ ev.type = "restart" /\ ~ev.ioErr /\ ev.purged # {}
    /\ \E r \in rows : now - r.seen_at < RetentionMinutes

----------------------------------------------------------------------------
(* The classification gate *)

InOutput(i) == \E j \in DOMAIN fout : fout[j] = fin[i]

\* C6: fail-open.  A listing with an image whose classification ended on a
\* failure (transport error, unreadable or malformed body, empty label or
\* score list, a non-200 status other than loading) is kept, and is in the
\* output of FilterItems.
C6_FailOpen ==
    \A i \in DOMAIN fin :
        (Len(fin[i].ImageURLs) > 0 /\ wpc[i] = "done" /\ answers[i] \in FailureKinds)
        => /\ results[i].keep
           /\ fpc = "done" => InOutput(i)

\* FilterItems has returned a listing whose retry after loading failed
C6_Witness ==
    /\ fpc = "done"
    /\ \E i \in DOMAIN fin :
        reqs[i] = 2 /\ answers[i] = "bad_status" /\ InOutput(i)

\* C7: at most two classification requests are made for one listing: the
\* loading status is retried once, and a second failure is final.
C7_AtMostTwoRequests ==
    \A i \in DOMAIN fin : reqs[i] <= 2

\* C8: with a successful answer a listing is rejected exactly when the top
\* label is in the reject set and its score is above 0.3; this alone decides
\* whether it is in the output.
C8_RejectThreshold ==
    \A i \in DOMAIN fin :
        (wpc[i] = "done" /\ answers[i] \in {"top_is_trash", "top_is_fine"})
        => /\ results[i].keep <=> answers[i] = "top_is_fine"
           /\ fpc = "done" => (InOutput(i) <=> answers[i] = "top_is_fine")

\* FilterItems has returned without a listing whose top label was trash above
\* the threshold, and with one whose top label was trash at the threshold
C8_Witness ==
    /\ fpc = "done"
    /\ \E i \in DOMAIN fin : answers[i] = "top_is_trash" /\ ~InOutput(i)
    /\ \E i \in DOMAIN fin :
        /\ results[i].label \in trashLabels
        /\ results[i].score = RejectThreshold
        /\ InOutput(i)

\* C9: a listing without image is in the output of FilterItems and no
\* classification request is ever issued for it.
C9_NoImageBypass ==
    \A i \in DOMAIN fin :
        Len(fin[i].ImageURLs) = 0
        => /\ reqs[i] = 0
           /\ fpc = "done" => InOutput(i)

\* the enabled gate has returned a listing without image and rejected another
C9_Witness ==
    /\ fpc = "done" /\ enabled
    /\ \E i \in DOMAIN fin : Len(fin[i].ImageURLs) = 0 /\ InOutput(i)
    /\ \E i \in DOMAIN fin : answers[i] = "top_is_trash"

\* C10: with no API key, the placeholder key or the feature flag off,
\* FilterItems returns its input and issues no classification request.
C10_DisabledIsIdentity ==
    (apiKey = "" \/ apiKey = PlaceholderKey \/ ~enableFlag)
    => /\ \A i \in DOMAIN fin : reqs[i] = 0 /\ wpc[i] = "none"
       /\ fpc = "done" => fout = fin

\* the gate was given the placeholder key, the flag on and a listing with image
C10_Witness ==
    /\ fpc = "done" /\ apiKey = PlaceholderKey /\ enableFlag
    /\ \E i \in DOMAIN fin : Len(fin[i].ImageURLs) > 0

\* the workers of the call that hold a slot: classifying or waiting to retry
InFlight == {i \in DOMAIN fin : wpc[i] \in {"run", "sleep"}}

\* C11: at every moment of a FilterItems call at most 3 classification calls
\* are in flight, a worker waiting out the loading retry included.
C11_AtMostThreeInFlight ==
    Cardinality(InFlight) <= 3

\* three workers hold the slots, one of them asleep before its retry, and the
\* dispatcher stands at a further listing with an image
C11_Witness ==
    /\ Cardinality(InFlight) = 3
    /\ \E i \in InFlight : wpc[i] = "sleep"
    /\ fpc = "loop" /\ fi \in DOMAIN fin /\ Len(fin[fi].ImageURLs) > 0

\* C12: join barrier.  Once FilterItems has collected and returned, every
\* worker it dispatched has completed: none is running or asleep, and every
\* listing with an image has its result written.
C12_JoinBarrier ==
    fpc = "done" /\ enabled =>
        \A i \in DOMAIN fin :
            /\ wpc[i] \notin {"run", "sleep"}
            /\ Len(fin[i].ImageURLs) > 0 => wpc[i] = "done" /\ answers[i] # "none"

\* FilterItems has returned after four workers, one of which had to retry
C12_Witness ==
    /\ fpc = "done" /\ Len(fin) > 3
    /\ \A i \in DOMAIN fin : wpc[i] = "done"
    /\ \E i \in DOMAIN fin : reqs[i] > 1

\* the indices whose decision was keep
KeptIdx == {i \in DOMAIN fin : results[i].keep}

\* C13: the output of FilterItems is the sub-sequence of the input whose
\* decision was keep: each kept listing once, at the place its input order
\* gives it, and nothing else, in whatever order the workers finished.
C13_OutputIsOrderedSubsequence ==
    fpc = "done" /\ enabled /\ Len(fin) > 0 =>
        /\ Len(fout) = Cardinality(KeptIdx)
        /\ \A i \in KeptIdx :
            fout[Cardinality({k \in KeptIdx : k <= i})] = fin[i]

\* FilterItems has returned the first and the last of four listings and
\* dropped one between them
C13_Witness ==
    /\ fpc = "done" /\ Len(fin) > 3
    /\ KeptIdx \cap {1, Len(fin)} = {1, Len(fin)}
    /\ \E i \in DOMAIN fin : i \notin KeptIdx
    /\ Len(fout) > 1

----------------------------------------------------------------------------
(* The retrying search *)

\* C14: with maxRetries = N and a search client that fails every time,
\* searchWithRetry makes exactly N + 1 search calls (never more at any
\* moment) and returns no listings and an error that wraps the error of the
\* last call.
C14_RetryBound ==
    /\ Len(outcomes) <= maxRetries + 1
    /\ (sPc = "returned" /\ \A k \in DOMAIN outcomes : outcomes[k] # "") =>
            /\ Len(outcomes) = maxRetries + 1
            /\ sRet.err # ""
            /\ sRet.items = <<>>
            /\ sRet.wraps = outcomes[Len(outcomes)]

\* searchWithRetry with maxRetries 3 has returned after four failed calls,
\* the last of which failed differently from the one before
C14_Witness ==
    /\ sPc = "returned" /\ maxRetries = 3 /\ Len(outcomes) = 4
    /\ sRet.err # ""
    /\ outcomes[3] # outcomes[4]

----------------------------------------------------------------------------
(* The counters of a cycle *)

\* C15: cycle monotonicity, found >= fresh >= unseen >= kept >= sent.  In
\* every state of a cycle the counters the code keeps are ordered, for the
\* brand being scanned and for the cycle's totals; and every keyword pass adds
\* to them in that order: the listings found are at least those that passed the
\* age filter, these at least the unseen ones, these at least the ones handed
\* to and kept by the gate, and each kept listing is sent at most once.
C15_CycleMonotonicity ==
    /\ [](/\ found >= newItems /\ newItems >= sent + Len(kept)
          /\ totalFound >= totalNew /\ totalNew >= totalSent)
    /\ [][ /\ ev'.type = "search" =>
                /\ found' - found >= ev'.fresh
                /\ ev'.fresh >= newItems' - newItems
                /\ newItems' - newItems >= Len(unseen')
           /\ pc = "filter" => Len(unseen) >= Len(kept')
           /\ pc = "notify" => Len(kept) - Len(kept') >= sent' - sent
         ]_vars

\* a second keyword pass of a brand has found three listings, two of them
\* fresh and one unseen, after a pass in which a listing was kept but not sent
C15_Witness ==
    /\ ev.type = "search" /\ ev.fresh = 2 /\ kIdx = 2
    /\ found > 3 /\ found - newItems > 1 /\ newItems > sent /\ Len(unseen) = 1

----------------------------------------------------------------------------
(* The process: scan loop, panics, shutdown *)

\* C16: at most one scan cycle is under way at any time, and while Bot.run
\* waits for a tick or a signal none is: a cycle starts only after the
\* previous one has ended, also when ticks arrive during a cycle.
C16_OneCycleAtATime ==
    /\ running <= 1
    /\ rpc \in {"select", "cooldown", "returned"} => running = 0

\* a tick is waiting in the channel while the second cycle is under way
C16_Witness ==
    running = 1 /\ tick = 1 /\ runCount = 1 /\ rpc = "scan"

\* C17: a panic raised during a scan cycle never terminates the process.
C17_PanicNeverTerminates ==
    mpc # "crashed"

\* C18: when the process has exited after a shutdown, Bot.run has returned
\* and the command listener has seen its stop signal and terminated.
C18_ExitWaitsForBoth ==
    (mode = "loop" /\ mpc = "exited") => (rpc = "returned" /\ lpc = "stopped")

\* C19: once a termination signal has been delivered, Bot.run returns in the
\* end (or the process has died of a panic).
C19_SignalLeadsToExit ==
    signalled ~> (rpc = "returned" \/ mpc = "crashed")

\* C20: when the read behind HasSeen fails, what HasSeen returns for a
\* recorded id differs from what it returns for an id that is not recorded.
C20_ReadFailureIsDistinct ==
    \A id \in live :
        HasSeen(rows, id, TRUE) # HasSeen(rows \ RowsOf(rows, id), id, FALSE)

----------------------------------------------------------------------------
(* The search response *)

\* the field holds one of the amounts in one of its encodings
Normal(v) == \E n \in Amounts : v \in Encodings(n)

AmountOf(v) == CHOOSE n \in Amounts : v \in Encodings(n)

\* the field is a string with nothing numeric in it, or the empty string
Unexpected(v) ==
    v.kind = "string" /\ ~ParseInt(v.text).ok /\ ~ParseFloat(v.text).ok

\* C21: a numeric field of a search response (price, created) that holds
\* the integer n as a JSON number n, as the string "n" or with a zero
\* fraction "n.0" is returned as the integer n.
C21_NumberNormalization ==
    (/\ searchPc = "returned" /\ resp.status = StatusOK /\ resp.json
     /\ \A i \in DOMAIN resp.items :
            Normal(resp.items[i].price) /\ Normal(resp.items[i].created)) =>
        /\ searchRet.err = ""
        /\ Len(searchRet.items) = Len(resp.items)
        /\ \A i \in DOMAIN resp.items :
            /\ searchRet.items[i].Price = AmountOf(resp.items[i].price)
            /\ searchRet.items[i].Created = AmountOf(resp.items[i].created)

\* Search has returned two listings, one priced "15000.0" in a string, and
\* its price is 15000
C21_Witness ==
    /\ searchPc = "returned" /\ Len(searchRet.items) = 2
    /\ \E i \in DOMAIN resp.items :
        /\ resp.items[i].price = Value("string", Decimal(15000) \o <<".", "0">>)
        /\ searchRet.items[i].Price = 15000

\* C22: a numeric field with an unexpected encoding (a non-numeric string,
\* the empty string) never fails the response: Search returns every listing
\* and the field is zero.
C22_BadFieldDefaultsToZero ==
    (/\ searchPc = "returned" /\ resp.status = StatusOK /\ resp.json
     /\ \E i \in DOMAIN resp.items :
            Unexpected(resp.items[i].price) \/ Unexpected(resp.items[i].created)) =>
        /\ searchRet.err = ""
        /\ Len(searchRet.items) = Len(resp.items)
        /\ \A i \in DOMAIN resp.items :
            /\ Unexpected(resp.items[i].price) => searchRet.items[i].Price = 0
            /\ Unexpected(resp.items[i].created) => searchRet.items[i].Created = 0

\* a control character of ASCII
IsControl(r) == r < 32 \/ r = 127

\* C23: a response with a status outside 200..299 makes Search return an
\* error and no listings; the body excerpt of the error has no control
\* character and at most 300 characters.
C23_ErrorExcerpt ==
    (searchPc = "returned" /\ resp.status \notin 200..299) =>
        /\ searchRet.err # ""
        /\ searchRet.items = <<>>
        /\ Len(searchRet.excerpt) <= ExcerptLen
        /\ \A k \in DOMAIN searchRet.excerpt : ~IsControl(searchRet.excerpt[k])

----------------------------------------------------------------------------
(* The proof tokens *)

\* search calls that got as far as sending their request
Sent == {k \in DOMAIN outcomes : outcomes[k] # SignError}

\* C24: one proof token is signed for each search request sent, every
\* attempt of searchWithRetry included; no token and no nonce is used for two
\* requests; every token is signed with the key the scanner was built with,
\* which never changes.
C24_OneFreshTokenPerRequest ==
    /\ [](/\ sentReqs = tokens
          /\ Len(sentReqs) = Cardinality(Sent)
          /\ \A i, j \in DOMAIN sentReqs :
                /\ i # j => sentReqs[i] # sentReqs[j]
                /\ i # j => sentReqs[i].jti # sentReqs[j].jti
                /\ i # j => sentReqs[i].uuid # sentReqs[j].uuid
                /\ sentReqs[i].jti # sentReqs[j].uuid
          /\ \A i \in DOMAIN sentReqs : sentReqs[i].key = privateKey)
    /\ [][privateKey' = privateKey]_vars

\* three attempts have failed after their request was sent and the fourth
\* has answered: four requests, four tokens, one key
C24_Witness ==
    /\ sPc = "returned" /\ sRet.err = "" /\ Len(outcomes) = 4
    /\ Len(sentReqs) = 4
    /\ privateKey = "key2" /\ sentReqs[4].key = "key2"
    /\ sentReqs[1].jti # sentReqs[4].jti

----------------------------------------------------------------------------
(* The keyword loop *)

\* C25: when searchWithRetry returns its error for a keyword the cycle goes
\* on: the keyword adds nothing to found, newItems or sent, no notification
\* and no MarkSeen is made for it, and scanBrand stands at the next keyword of
\* the same brand, from where the remaining keywords and brands are scanned.
C25_FailedKeywordIsSkipped ==
    /\ [][ev'.type = "search_failed" =>
            /\ pc' = "search" /\ bIdx' = bIdx /\ kIdx' = kIdx + 1
            /\ UNCHANGED <<found, newItems, sent, totalFound, totalNew, totalSent>>
            /\ UNCHANGED <<rows, delivered, live, runCount>>]_vars
    /\ [](ev.type = "search_failed" =>
            ENABLED (ScanKeyword \/ ScanBrandReturns))

\* the second keyword of the first brand has failed after the first one
\* brought a notification; the third keyword, of the next brand, is still to
\* come
C25_Witness ==
    /\ ev.type = "search_failed" /\ bIdx = 1 /\ kIdx = 3
    /\ found > 0 /\ sent > 0

\* the first n elements of a list, all of them when it is shorter
FirstOf(list, n) == SubSeq(list, 1, IF Len(list) < n THEN Len(list) ELSE n)

\* C26: the unseen listings of a keyword are cut to MaxDealsPerBrand before
\* the gate: FilterItems is never called with more than MaxDealsPerBrand
\* listings, the ones it gets are the first of the unseen ones in the order of
\* the response, and at most MaxDealsPerBrand notifications are attempted in
\* one pass of the keyword loop.
C26_CapBeforeGate ==
    /\ pc = "filter" =>
            /\ Len(unseen) <= MaxDealsPerBrand
            /\ ev.type = "search"
            /\ unseen = FirstOf(ev.unseen, MaxDealsPerBrand)
    /\ pc = "notify" => Len(kept) <= MaxDealsPerBrand

\* three listings of a response were unseen and the first two of them are
\* about to be classified
C26_Witness ==
    /\ pc = "filter" /\ Len(ev.unseen) = MaxDealsPerBrand + 1
    /\ Len(unseen) = MaxDealsPerBrand
    /\ unseen[1] # unseen[2] /\ ev.unseen[3] # unseen[2]

\* the listing is older than cfg.MaxAgeMinutes
TooOld(item) == now - item.Created > MaxAgeMinutes

\* C27: a listing older than the maximum age is never looked up in the
\* store, classified, notified or marked seen; a listing whose age is at most
\* the maximum passes the age filter.
C27_AgeFilter ==
    /\ ev.type = "search" =>
            /\ ev.looked = SelectSeq(ev.items, LAMBDA it : ~TooOld(it))
            /\ \A k \in DOMAIN ev.unseen : ~TooOld(ev.unseen[k])
    /\ \A k \in DOMAIN unseen : ~TooOld(unseen[k])
    /\ \A k \in DOMAIN kept : ~TooOld(kept[k])

\* a response of three listings, the middle one a minute too old: the other
\* two, exactly of the maximum age, were looked up and go to the gate
C27_Witness ==
    /\ ev.type = "search" /\ pc = "filter" /\ Len(ev.items) = 3
    /\ TooOld(ev.items[2])
    /\ ev.looked = <<ev.items[1], ev.items[3]>>
    /\ now - ev.items[1].Created = MaxAgeMinutes
    /\ unseen = ev.looked

----------------------------------------------------------------------------
(* The backoff of the retrying search *)

\* C28: attempt 0 of searchWithRetry is made without waiting; attempt k, for
\* k from 1 to maxRetries, is preceded by one wait of 2^(k-1) seconds plus a
\* jitter of at least 0 and less than 1 second; the first successful attempt
\* is the last one, and the call returns its listings with no further
\* attempt and no further wait.
C28_BackoffSchedule ==
    /\ Len(waits) = (IF outcomes = <<>> THEN 0 ELSE Len(outcomes) - 1)
    /\ \A k \in DOMAIN waits :
        /\ waits[k].before = k
        /\ k <= maxRetries
        /\ waits[k].ms >= (2 ^ (k - 1)) * 1000
        /\ waits[k].ms < (2 ^ (k - 1)) * 1000 + 1000
    /\ \A k \in DOMAIN outcomes :
        outcomes[k] = "" =>
            /\ k = Len(outcomes)
            /\ sPc = "returned" /\ sRet.err = ""

\* the search has failed three times and answered with a listing at attempt
\* 3: the waits were 1 s, between 2 s and 3 s, and just under 5 s
C28_Witness ==
    /\ sPc = "returned" /\ sRet.err = "" /\ sRet.items # <<>>
    /\ Len(outcomes) = 4 /\ Len(waits) = 3
    /\ waits[1].ms = 1000 /\ waits[2].ms > 2000 /\ waits[3].ms = 4999

----------------------------------------------------------------------------
(* The records of an open store *)

\* C29: cleanup runs when the store is constructed and at no other time: no
\* HasSeen, MarkSeen or Count call on an open store removes a record, however
\* old, so an id whose MarkSeen succeeded is answered true by every lookup
\* the database executes until the store is opened again.
C29_NoPurgeWhileOpen ==
    [][ev'.type # "restart" =>
            /\ rows \subseteq rows'
            /\ (ev'.marked /\ ~ev'.err) => HasSeen(rows', ev'.id, FALSE)
            /\ \A id \in IDs :
                HasSeen(rows, id, FALSE) => HasSeen(rows', id, FALSE)]_vars

\* a lookup on an open store has found a record that is older than 7 days
C29_Witness ==
    /\ ev.type = "lookup" /\ ~ev.ioErr /\ ev.existed
    /\ \E r \in RowsOf(rows, ev.id) : now - r.seen_at > RetentionMinutes

\* C30: a record is never updated.  A MarkSeen of an id that has a record
\* leaves that record's brand, name, price and seen_at as they were, whatever
\* the call's brand, name, price and time; the seen_at of every record is the
\* time of the MarkSeen that inserted it, from which retention counts.
C30_RecordNeverUpdated ==
    /\ [][(ev'.marked /\ ev'.existed) =>
                RowsOf(rows', ev'.id) = RowsOf(rows, ev'.id)]_vars
    /\ [](\A r \in rows : r.seen_at = firstMark[r.id])

\* a MarkSeen with another brand, name and price has been executed on an id
\* recorded more than 7 days earlier, and the record is as it was
C30_Witness ==
    /\ ev.type = "mark" /\ ev.existed /\ ~ev.ioErr /\ ~ev.err
    /\ \E r \in RowsOf(rows, ev.id) :
        /\ r.brand # ev.offered.brand /\ r.name # ev.offered.name
        /\ r.price # ev.offered.price
        /\ ev.offered.seen_at - r.seen_at > RetentionMinutes
        /\ firstMark[ev.id] = r.seen_at

----------------------------------------------------------------------------
(* The command listener *)

\* the listener goroutine takes a step
ListenerStep == <<upc, batch, uIdx, snap, replies, polls>>' # <<upc, batch, uIdx, snap, replies, polls>>

\* C31: no step of the command listener changes the table of seen listings:
\* the listener only reads the cycle statistics and the row count
C31_ListenerWritesNothing == [][ListenerStep => rows' = rows]_vars

\* a status reply reports the rows the scan loop has inserted so far
C31_Witness ==
    /\ replies # <<>>
    /\ replies[Len(replies)].status.count > 0
    /\ replies[Len(replies)].status.count = Cardinality(rows)

\* C36: every status reply shows a consistent snapshot: the last-scan time
\* and the cycle count it reports were written by the same completed cycle
C36_ConsistentSnapshot ==
    \A k \in DOMAIN replies :
        replies[k].status.by = replies[k].status.cycles

\* the update comes from the configured chat and its text starts with a command
Authorised(up) ==
    /\ up.hasMessage /\ up.hasChat
    /\ FormatInt(up.chat) = chatID
    /\ \/ HasPrefix(up.text, CheckCmd)
       \/ HasPrefix(up.text, StatusCmd)

\* C37: getStatus is called and a status reply sent only for an update from
\* the configured chat whose text starts with /check or /status
C37_RepliesOnlyToOwner ==
    /\ \A k \in DOMAIN replies : Authorised(replies[k].update)
    /\ upc \in {"status", "status_count"} => Authorised(batch[uIdx])

\* the owner has had a reply, and a command from another chat was skipped
C37_Witness ==
    /\ replies # <<>>
    /\ upc = "handle" /\ batch # <<>> /\ uIdx = Len(batch) + 1
    /\ batch[1].hasChat /\ FormatInt(batch[1].chat) # chatID
    /\ isCommand(batch[1].text)
    /\ Len(replies[1].update.text) > Len(StatusCmd)

\* C38: no inbound update (without a message, with an empty text, with a
\* text but no chat object) makes the listener fail or ends the process
C38_NoUpdateStopsListener == upc # "crashed"

----------------------------------------------------------------------------
(* The pacing of the searches *)

\* C32: every search of a cycle but the first comes after a randomized delay
\* of 500 to 2000 ms since the search before it, for the next keyword of the
\* same brand as for the first keyword of the next brand
C32_PacedSearches ==
    [][(ev'.type \in {"search", "search_failed"} /\ ~(bIdx = 1 /\ kIdx = 1))
        => paced \in PaceBase..(PaceBase + PaceSpread)]_vars

----------------------------------------------------------------------------
(* Write failures of the store in a cycle *)

\* C33: when MarkSeen returns an error in a cycle the failure is logged, and
\* the cycle goes on with the remaining listings, keywords and brands
C33_WriteFailureReported ==
    (ev.type = "notify" /\ ev.marked /\ ev.err)
        => /\ ev.logged # {}
           /\ pc \in {"notify", "search"}

----------------------------------------------------------------------------
(* Termination of the gate *)

\* C34: FilterItems eventually returns, for every input and every behaviour
\* of the classifier in which each request completes, the one that answers
\* the loading status to every request included
C34_GateReturns == <>(fpc = "done")

----------------------------------------------------------------------------
(* The signal and the pending tick *)

\* C35: once the termination signal has been delivered, the scan loop starts
\* no new cycle, a tick waiting in the ticker's channel or not
C35_NoCycleAfterSignal == [][signalled => running' <= running]_vars

----------------------------------------------------------------------------
(* The result slots of the gate *)

\* C39: no slot of results is written twice, and when the slots are read for
\* the aggregation every index has been written exactly once, by the bypass
\* or by its own worker, and no worker is left that could still write
C39_SlotsWrittenOnce ==
    [][/\ \A i \in DOMAIN fin : writes'[i] <= 1
       /\ (fpc = "loop" /\ fpc' = "done")
            => \A i \in DOMAIN fin :
                /\ writes[i] = 1
                /\ wpc[i] \in {"none", "done"}
                /\ wpc[i] = "done" <=> ~HasNoImage(fin[i])]_vars

\* the slots of a bypassed listing and of two workers, one of which had to
\* repeat its request, have been aggregated
C39_Witness ==
    /\ fpc = "done" /\ enabled /\ Len(fin) = MaxItems
    /\ HasNoImage(fin[1]) /\ wpc[1] = "none"
    /\ wpc[2] = "done" /\ wpc[MaxItems] = "done" /\ reqs[2] > 1
    /\ \A i \in DOMAIN fin : writes[i] = 1

====
